---- MODULE Spec2Model ----
(***************************************************************************)
(* A model of the ingestion pipeline and the retrieval code of the         *)
(* regulatory-document RAG system:                                         *)
(*   - ingest_json and its helpers (ingestion/companies/data_ingestion.py) *)
(*   - the retry decorator and get_embeddings (openai_manager/connector.py) *)
(*   - extract_keywords_llm (rag/keyword_extraction.py)                    *)
(*   - hybrid_search (rag/rag_engine.py)                                   *)
(*   - answer_question (rag/rag_db.py)                                     *)
(*   - two ingestion processes racing on one file_path, and                *)
(*     check_document_exists called on its own (data_ingestion.py)         *)
(*   - the embedding cache file across restarts (connector.py)             *)
(* Each part has its own specification over the shared variables; the      *)
(* variables of the other parts stay at their initial values.              *)
(***************************************************************************)
EXTENDS Integers, Sequences, FiniteSets, TLC

VARIABLES
    \* ---- PostgreSQL tables (data_ingestion.py CREATE_TABLES_SQL) ----
    documents,      \* rows of table documents, in insertion order: [id, file_path]
    doc_chunk,      \* rows of table doc_chunk, in insertion order
    doc_seq,        \* last value handed out by documents.id SERIAL
    \* ---- ingest_json: locals of the running call ----
    batch_size,     \* embed_and_store_chunks' batch_size parameter
    pc,             \* position of ingest_json
    nrecords,       \* len(records)
    idx,            \* 1-based position of the for loop in records
    record,         \* file_path of the record being handled
    stats,          \* the four counters
    existing_doc_id,\* local existing_doc_id
    document_id,    \* local document_id
    chunks,         \* len(chunks) returned by process_pdf
    tags,           \* result of extract_keywords_llm and the two tag embeddings
    i,              \* loop variable i of embed_and_store_chunks
    \* ---- observation of the runs (not program state) ----
    runs,           \* ingest_json calls started so far
    embed_calls,    \* embedding-provider calls made for the current record
    kw_calls,       \* extract_keywords_llm calls made for the current record
    full_text,      \* local full_text: how many chunks it joins (0: not built)
    batches,        \* the embed_documents calls made for the current record
    outcomes,       \* per handled record of this run: what it was counted as
    written,        \* file_path -> doc_chunk rows present when it was counted processed
    rejected,       \* file_paths whose INSERT INTO documents the unique index rejected
    \* ---- check_document_exists called on its own ----
    lookup_pc,      \* "idle", or "returned" once a call has returned
    lookup_path,    \* the file_path argument of the last call
    lookup_result,  \* what the last call returned
    \* ---- the process that holds OPENAI_MANAGER, and its cache file ----
    cache_file,     \* the file at CACHE_PATH: does it exist, and the dict in it
    restarts,       \* observation: process restarts so far
    earlier_keys,   \* observation: keys cached by the earlier runs of the process
    \* ---- threads of one process calling get_embeddings ----
    th_pc,          \* per thread: its position in get_embeddings
    th_text,        \* per thread: the text argument
    th_ret,         \* per thread: what its last call returned
    th_calls,       \* per thread: calls started so far
    th_requests,    \* observation: the inputs of the embeddings.create calls, in order
    \* ---- ingestion workers on one database, handling the same file_path ----
    wk_pc,          \* per worker: its position in the loop body of ingest_json
    wk_doc,         \* per worker: local document_id
    wk_i,           \* per worker: doc_chunk rows it has inserted
    wk_out,         \* per worker: what its record was counted as
    \* ---- OPENAI_MANAGER and the retry wrapper around get_embeddings ----
    embedding_cache,\* self.embedding_cache: cleaned text -> vector
    emb_pc,         \* position of the wrapper
    emb_text,       \* the text argument of the running call
    cur_attempt,    \* loop variable of the wrapper
    cur_delay,      \* local cur_delay of the wrapper
    sleeps,         \* the time.sleep arguments of the running call
    emb_done,       \* observation: the calls that returned, in order
    \* ---- extract_keywords_llm ----
    kw_pc,          \* position of extract_keywords_llm
    kw_text_len,    \* len(text)
    kw_doc_len,     \* len(truncate_for_llm(text)), the document part of the prompt
    kw_resp,        \* what llm.invoke did
    kw_bound,       \* is the local `content` assigned
    kw_content,     \* local content
    kw_result,      \* what the call handed to its caller
    \* ---- hybrid_search ----
    rrf_pc,         \* position of hybrid_search
    vector_results, \* ids of the rows of the vector query, in order
    keyword_results,\* ids of the rows of the keyword query, in order
    alpha,          \* parameter alpha
    limit,          \* parameter limit
    rank,           \* iterations done by the running enumerate loop
    rrf_score,      \* dict rrf_score: id -> score
    rrf_keys,       \* the keys of rrf_score in insertion order
    sorted_ids,     \* local sorted_ids
    final_docs,     \* the returned rows (their ids)
    \* ---- answer_question ----
    rag_pc,         \* position of answer_question
    question,       \* the question argument
    docs,           \* what retriever.invoke returned
    retrieval_logs, \* rows of table retrieval_logs, in insertion order
    rag_result,     \* what the call handed to its caller
    store_access,   \* observation: statements sent to the store by the running call
    provider_calls, \* observation: embedding and completion calls of the running call
    llm_calls,      \* observation: completion calls (llm.invoke) of the running call
    rag_n,          \* observation: answer_question calls so far
    \* ---- create_sentence_chunks ----
    cs_pc,          \* position of create_sentence_chunks
    cs_sentences,   \* the sentences argument
    cs_i,           \* loop variable i
    cs_chunks,      \* local chunks
    cs_groups,      \* observation: the groups the loop went through, and which it kept
    \* ---- init_db ----
    rp_pc,          \* position of init_db
    rp_documents,   \* rows of table documents (id, file_path)
    rp_chunks,      \* rows of table doc_chunk (document_id)
    rp_before,      \* observation: the two tables as init_db found them
    rp_duplicates,  \* the records of `duplicates` the loop has not handled yet
    rp_index,       \* does idx_documents_file_path exist
    \* ---- save_document_and_nodes ----
    sv_pc,          \* position of save_document_and_nodes
    sv_calls,       \* observation: calls so far
    sv_path,        \* document['filepath']
    sv_nodes,       \* len(nodes)
    sv_session,     \* db.session: is it open, the flushed document, nodes added
    sv_db,          \* the committed rows of documents and doc_chunk
    sv_before,      \* observation: the committed rows when the call started
    sv_exc,         \* the exception on its way to the caller ("" if none)
    sv_seq,         \* the id sequence of documents
    \* ---- load_documents_in_database ----
    ld_pc,          \* position of load_documents_in_database
    ld_runs,        \* observation: runs so far
    ld_existing,    \* local all_existing_docs
    ld_records,     \* the records of the JSON file
    ld_idx,         \* the record the for loop is at (from 1)
    ld_rows,        \* rows of table documents (id, file_url, file_path)
    ld_exc          \* the exception that ended the run ("" if none)

ingestVars == <<documents, doc_chunk, doc_seq, batch_size, pc, nrecords, idx,
                record, stats, existing_doc_id, document_id, chunks, tags, i, runs,
                embed_calls, kw_calls, full_text, batches, outcomes, written>>

embedVars == <<embedding_cache, emb_pc, emb_text, cur_attempt, cur_delay, sleeps,
               emb_done>>

kwVars == <<kw_pc, kw_text_len, kw_doc_len, kw_resp, kw_bound, kw_content, kw_result>>

rrfVars == <<rrf_pc, vector_results, keyword_results, alpha, limit, rank, rrf_score,
             rrf_keys, sorted_ids, final_docs>>

ragVars == <<rag_pc, question, docs, retrieval_logs, rag_result, store_access,
             provider_calls, llm_calls, rag_n>>

raceVars == <<rejected>>

lookupVars == <<lookup_pc, lookup_path, lookup_result>>

restartVars == <<cache_file, restarts, earlier_keys>>

threadVars == <<th_pc, th_text, th_ret, th_calls, th_requests>>

workerVars == <<wk_pc, wk_doc, wk_i, wk_out>>

chunkVars == <<cs_pc, cs_sentences, cs_i, cs_chunks, cs_groups>>

repairVars == <<rp_pc, rp_documents, rp_chunks, rp_before, rp_duplicates, rp_index>>

daoVars == <<sv_pc, sv_calls, sv_path, sv_nodes, sv_session, sv_db, sv_before, sv_exc,
            sv_seq>>

loadVars == <<ld_pc, ld_runs, ld_existing, ld_records, ld_idx, ld_rows, ld_exc>>

vars == <<ingestVars, raceVars, lookupVars, restartVars, embedVars, kwVars, rrfVars,
          ragVars, threadVars, workerVars,
          chunkVars,
          repairVars,
          daoVars,
          loadVars>>

\* ------------------------------------------------------------------ bounds
\* load_documents_in_database runs per behaviour
MaxLoadRuns == 2
\* records of a JSON file given to load_documents_in_database
MaxLoadRecords == 2
\* save_document_and_nodes calls per behaviour
MaxSaves == 2
\* nodes of a document given to save_document_and_nodes
MaxNodes == 2
\* documents rows in the table when init_db starts
MaxRepairDocs == 3
\* sentences in a list given to create_sentence_chunks
MaxSentences == 4
\* ingest_json calls per behaviour
MaxRuns == 2
\* records per JSON file
MaxRecords == 3
\* a failing INSERT is explored at the first MaxFailRow + 1 rows of a batch
MaxFailRow == 1
\* get_embeddings calls per behaviour
MaxCalls == 3
\* rows one query of hybrid_search returns
MaxRank == 3
\* Documents the retriever returns
MaxDocs == 2
\* answer_question calls per behaviour
MaxQuestions == 2
\* restarts of the process that holds OPENAI_MANAGER
MaxRestarts == 2
\* get_embeddings calls of one thread
MaxThreadCalls == 2

\* batch_size=16, the default ingest_json relies on
DEFAULT_BATCH_SIZE == 16

\* Python's None where the code only tests truthiness of an id (ids are SERIAL, >= 1)
None == 0

\* file_path values of the records: no path, a path that is not on disk, a PDF
\* without usable text, and two PDFs with text.
Paths == {"", "gone.pdf", "e.pdf", "a.pdf", "b.pdf"}

\* os.path.exists(file_path)
FileOnDisk(p) == p \in {"e.pdf", "a.pdf", "b.pdf"}

\* number of chunks process_pdf returns for a readable file
\* (a.pdf fits one batch, b.pdf needs a second batch of one chunk)
ChunksOf(p) ==
    IF p = "a.pdf" THEN 2 ELSE IF p = "b.pdf" THEN DEFAULT_BATCH_SIZE + 1 ELSE 0

\* what extract_keywords_llm returns for the text of a file (temperature 0): is
\* each list non-empty. a.pdf names sectors and companies, b.pdf names neither.
KeywordsOf(p) ==
    IF p = "a.pdf" THEN {[sectors |-> TRUE, companies |-> TRUE]}
    ELSE {[sectors |-> FALSE, companies |-> FALSE]}

NoTags == [sectors |-> FALSE, companies |-> FALSE,
           sectors_embed |-> FALSE, companies_embed |-> FALSE]

ZeroStats == [processed |-> 0, skipped_duplicates |-> 0, skipped_missing |-> 0, errors |-> 0]

\* ------------------------------------------------------------- sequences
RECURSIVE SelectRows(_, _)
\* the rows of table t with document_id d, in insertion order
SelectRows(t, d) ==
    IF t = <<>> THEN <<>>
    ELSE IF Head(t).document_id = d THEN <<Head(t)>> \o SelectRows(Tail(t), d)
    ELSE SelectRows(Tail(t), d)

Min(a, b) == IF a < b THEN a ELSE b

\* ------------------------------------------------------ document store
check_document_existsMutant(file_path) == {None}
\* the possible results of SELECT id FROM documents WHERE file_path = $1 LIMIT 1
check_document_exists(file_path) ==
    IF file_path = "" THEN {None}
    ELSE LET ids == {documents[k].id : k \in {k \in 1..Len(documents) :
                                               documents[k].file_path = file_path}}
         IN IF ids = {} THEN {None} ELSE ids

check_chunks_existMutant(d) == FALSE
check_chunks_existAlwaysMutant(d) == TRUE
\* SELECT COUNT(*) FROM doc_chunk WHERE document_id = $1; count > 0 if count else False
check_chunks_exist(d) == Len(SelectRows(doc_chunk, d)) > 0

ChunkIndexMutant(ii, k) == k
\* the chunk_index embed_and_store_chunks gives the idx-th chunk of the batch at i
ChunkIndex(ii, k) == ii + k

\* the characters sanitize_text removes: U+0000 and U+FFFD
NUL == "U+0000"
FFFD == "U+FFFD"

\* record.get("title"): a.pdf has a plain title, the title of b.pdf holds a
\* replacement character
TitleOf(p) == IF p = "b.pdf" THEN <<"T", FFFD, "t">> ELSE <<"T">>

\* description or "": a.pdf has no description
DescriptionOf(p) == IF p = "b.pdf" THEN <<"D">> ELSE <<>>

\* f"Title: {title}\nDescription: {description}\n\n{chunk}", chunk being the
\* n-th chunk of the file of record rec
Combined(rec, n) == [title |-> TitleOf(rec), description |-> DescriptionOf(rec), chunk |-> n]

\* text.replace("\x00", "").replace("\ufffd", "")
Removed(text) == SelectSeq(text, LAMBDA c : c \notin {NUL, FFFD})

\* sanitize_text of a combined text. The characters are removed wherever they
\* are; strip() finds nothing to remove, as the text starts with "Title:" and
\* ends with the chunk. (The chunks come sanitized and trimmed from
\* process_pdf: sanitize_text leaves them as they are.)
SanitizedCombined(c) ==
    [title |-> Removed(c.title), description |-> Removed(c.description), chunk |-> c.chunk]

BatchChunkMutant(ii, k) == k
\* batch = chunks[i:i+batch_size]: which chunk (from 1) is the k-th of the batch
BatchChunk(ii, k) == ii + k

\* the rows the inner loop inserts for the first n chunks of the batch starting
\* at i, for the record rec: chunk_no is the chunk whose text is in chunk_text,
\* chunk_embed is named by the text the provider computed the vector for
\* (embed_documents returns the vectors in the order of its texts)
BatchRows(d, ii, n, t, rec) ==
    [k \in 1..n |-> [document_id |-> d,
                     chunk_index |-> ChunkIndex(ii, k - 1),
                     chunk_no |-> BatchChunk(ii, k),
                     combined_text |-> SanitizedCombined(Combined(rec, BatchChunk(ii, k))),
                     chunk_embed |-> Combined(rec, BatchChunk(ii, k)),
                     sectors |-> t.sectors,
                     sectors_embed |-> t.sectors_embed,
                     companies |-> t.companies,
                     companies_embed |-> t.companies_embed]]

\* ------------------------------------------------------------ ingest_json
BumpMutant(key) == [stats EXCEPT ![key] = @ + 2]
\* stats[key] += 1
Bump(key) == [stats EXCEPT ![key] = @ + 1]

AfterErrorMutant == nrecords + 1
\* where the for loop goes after a record whose handling raised
AfterError == idx + 1

\* the locals of the loop body are dead between two records (each is assigned
\* before it is read): the model clears them
ClearLocals ==
    /\ record' = ""
    /\ existing_doc_id' = None
    /\ document_id' = None
    /\ chunks' = 0
    /\ tags' = NoTags
    /\ i' = 0
    /\ embed_calls' = 0
    /\ kw_calls' = 0
    /\ full_text' = 0
    /\ batches' = <<>>

\* `continue` / end of the loop body: the next record
Continue(what) ==
    /\ outcomes' = Append(outcomes, what)
    /\ idx' = idx + 1
    /\ pc' = "loop"
    /\ ClearLocals

AfterExceptMutant == "aborted"
\* where ingest_json is after its except block: the block ends the loop body,
\* nothing is re-raised
AfterExcept == "loop"

\* except Exception: stats["errors"] += 1, and the loop goes on
Except ==
    /\ stats' = Bump("errors")
    /\ outcomes' = Append(outcomes, "error")
    /\ idx' = AfterError
    /\ pc' = AfterExcept
    /\ ClearLocals

\* ingest_json(json_path): records loaded, connection opened, stats zeroed
StartRun(n) ==
    /\ pc \in {"idle", "done", "crashed"}
    /\ runs < MaxRuns
    /\ runs' = runs + 1
    /\ nrecords' = n
    /\ idx' = 1
    /\ stats' = ZeroStats
    /\ outcomes' = <<>>
    /\ pc' = "loop"
    /\ UNCHANGED <<documents, doc_chunk, doc_seq, batch_size, record,
                   existing_doc_id, document_id, chunks, tags, i, embed_calls,
                   kw_calls, full_text, batches, written>>
    /\ UNCHANGED <<embedVars, kwVars, rrfVars, ragVars, raceVars, lookupVars,
                   restartVars, threadVars, workerVars,
                   chunkVars,
                   repairVars,
                   daoVars,
                   loadVars>>

\* top of the loop body: file_path = record.get("file_path")
LoopHead(p) ==
    /\ pc = "loop"
    /\ idx <= nrecords
    /\ record' = p
    /\ pc' = "file"
    /\ UNCHANGED <<documents, doc_chunk, doc_seq, batch_size, nrecords, idx, stats,
                   existing_doc_id, document_id, chunks, tags, i, runs, embed_calls,
                   kw_calls, full_text, batches, outcomes, written>>
    /\ UNCHANGED <<embedVars, kwVars, rrfVars, ragVars, raceVars, lookupVars,
                   restartVars, threadVars, workerVars,
                   chunkVars,
                   repairVars,
                   daoVars,
                   loadVars>>

\* if not file_path or not os.path.exists(file_path): skipped_missing, continue
CheckFile ==
    /\ pc = "file"
    /\ IF record = "" \/ ~FileOnDisk(record)
       THEN /\ stats' = Bump("skipped_missing")
            /\ Continue("missing")
       ELSE /\ pc' = "exists"
            /\ UNCHANGED <<stats, outcomes, idx, record, existing_doc_id,
                           document_id, chunks, tags, i, embed_calls, kw_calls,
                           full_text, batches>>
    /\ UNCHANGED <<documents, doc_chunk, doc_seq, batch_size, nrecords, runs, written>>
    /\ UNCHANGED <<embedVars, kwVars, rrfVars, ragVars, raceVars, lookupVars,
                   restartVars, threadVars, workerVars,
                   chunkVars,
                   repairVars,
                   daoVars,
                   loadVars>>

\* check_document_exists found a row: duplicate, or the recovery path
ExistingDocument ==
    /\ pc = "exists"
    /\ \E found \in check_document_exists(record) :
         /\ found # None
         /\ IF check_chunks_exist(found)
            THEN /\ stats' = Bump("skipped_duplicates")
                 /\ Continue("dup")
            ELSE /\ existing_doc_id' = found
                 /\ document_id' = found
                 /\ pc' = "chunk"
                 /\ UNCHANGED <<stats, outcomes, idx, record, chunks, tags, i,
                                embed_calls, kw_calls, full_text, batches>>
    /\ UNCHANGED <<documents, doc_chunk, doc_seq, batch_size, nrecords, runs, written>>
    /\ UNCHANGED <<embedVars, kwVars, rrfVars, ragVars, raceVars, lookupVars,
                   restartVars, threadVars, workerVars,
                   chunkVars,
                   repairVars,
                   daoVars,
                   loadVars>>

\* no row: insert_document checks again, inserts and returns the new id
InsertDocument ==
    /\ pc = "exists"
    /\ None \in check_document_exists(record)
    /\ doc_seq' = doc_seq + 1
    /\ documents' = Append(documents, [id |-> doc_seq + 1, file_path |-> record])
    /\ document_id' = doc_seq + 1
    /\ pc' = "chunk"
    /\ UNCHANGED <<doc_chunk, batch_size, nrecords, idx, record, stats,
                   existing_doc_id, chunks, tags, i, runs, embed_calls, kw_calls,
                   full_text, batches, outcomes, written>>
    /\ UNCHANGED <<embedVars, kwVars, rrfVars, ragVars, raceVars, lookupVars,
                   restartVars, threadVars, workerVars,
                   chunkVars,
                   repairVars,
                   daoVars,
                   loadVars>>

\* insert_document raises (strptime on downloaded_on, or the INSERT itself)
InsertDocumentRaises ==
    /\ pc = "exists"
    /\ None \in check_document_exists(record)
    /\ Except
    /\ UNCHANGED <<documents, doc_chunk, doc_seq, batch_size, nrecords, runs, written>>
    /\ UNCHANGED <<embedVars, kwVars, rrfVars, ragVars, raceVars, lookupVars,
                   restartVars, threadVars, workerVars,
                   chunkVars,
                   repairVars,
                   daoVars,
                   loadVars>>

NoChunksMutant(n) == FALSE
\* ingest_json: if not chunks
NoChunks(n) == n = 0

\* chunks = await process_pdf(file_path); if not chunks: skipped_missing, continue
ProcessPdf ==
    /\ pc = "chunk"
    /\ IF NoChunks(ChunksOf(record))
       THEN /\ stats' = Bump("skipped_missing")
            /\ Continue("missing")
       ELSE /\ chunks' = ChunksOf(record)
            /\ pc' = "keywords"
            /\ UNCHANGED <<stats, outcomes, idx, record, existing_doc_id,
                           document_id, tags, i, embed_calls, kw_calls, full_text,
                           batches>>
    /\ UNCHANGED <<documents, doc_chunk, doc_seq, batch_size, nrecords, runs, written>>
    /\ UNCHANGED <<embedVars, kwVars, rrfVars, ragVars, raceVars, lookupVars,
                   restartVars, threadVars, workerVars,
                   chunkVars,
                   repairVars,
                   daoVars,
                   loadVars>>

\* process_pdf raises (the loader cannot read the file)
ProcessPdfRaises ==
    /\ pc = "chunk"
    /\ Except
    /\ UNCHANGED <<documents, doc_chunk, doc_seq, batch_size, nrecords, runs, written>>
    /\ UNCHANGED <<embedVars, kwVars, rrfVars, ragVars, raceVars, lookupVars,
                   restartVars, threadVars, workerVars,
                   chunkVars,
                   repairVars,
                   daoVars,
                   loadVars>>

JoinedChunksMutant(n) == Min(n, 1)
\* full_text = "\n\n".join(chunks): how many chunks the text joins
JoinedChunks(n) == n

\* keywords = extract_keywords_llm(full_text, llm): one call on the joined chunks.
\* full_text.strip() is never empty here: every chunk is longer than 50 characters.
ExtractKeywords(t) ==
    /\ pc = "keywords"
    /\ full_text' = JoinedChunks(chunks)
    /\ kw_calls' = kw_calls + 1
    /\ tags' = [NoTags EXCEPT !.sectors = t.sectors, !.companies = t.companies]
    /\ pc' = "tags"
    /\ UNCHANGED <<documents, doc_chunk, doc_seq, batch_size, nrecords, idx, record,
                   stats, existing_doc_id, document_id, chunks, i, runs, embed_calls,
                   batches, outcomes, written>>
    /\ UNCHANGED <<embedVars, kwVars, rrfVars, ragVars, raceVars, lookupVars,
                   restartVars, threadVars, workerVars,
                   chunkVars,
                   repairVars,
                   daoVars,
                   loadVars>>

TagEmbedMutant(has_tags, ok) == ok
\* sectors_embed = None; if sectors_text: try: sectors_embed = the vector of
\* embed_query(sectors_text); except: it stays None (has_tags: the joined text
\* of the list is not empty; ok: the call answers)
TagEmbed(has_tags, ok) == has_tags /\ ok

\* embed_and_store_chunks, up to the batch loop: one embed_query per non-empty tag
\* list; an exception of either call is caught and leaves that embedding None
EmbedTags(s_ok, c_ok) ==
    /\ pc = "tags"
    /\ tags' = [tags EXCEPT !.sectors_embed = TagEmbed(tags.sectors, s_ok),
                            !.companies_embed = TagEmbed(tags.companies, c_ok)]
    /\ embed_calls' = embed_calls + (IF tags.sectors THEN 1 ELSE 0)
                                  + (IF tags.companies THEN 1 ELSE 0)
    /\ i' = 0
    /\ pc' = "batch"
    /\ UNCHANGED <<documents, doc_chunk, doc_seq, batch_size, nrecords, idx, record,
                   stats, existing_doc_id, document_id, chunks, runs, kw_calls,
                   full_text, batches, outcomes, written>>
    /\ UNCHANGED <<embedVars, kwVars, rrfVars, ragVars, raceVars, lookupVars,
                   restartVars, threadVars, workerVars,
                   chunkVars,
                   repairVars,
                   daoVars,
                   loadVars>>

BatchLenMutant(size, ii, k) == k - ii
\* len(chunks[i:i+batch_size]) for a list of k chunks
BatchLen(size, ii, k) == Min(size, k - ii)

\* one iteration of the batch loop: embed_documents, then one INSERT per chunk
EmbedBatch ==
    /\ pc = "batch"
    /\ i < chunks
    /\ LET n == BatchLen(batch_size, i, chunks)
       IN /\ doc_chunk' = doc_chunk \o BatchRows(document_id, i, n, tags, record)
          /\ batches' = Append(batches, [first |-> BatchChunk(i, 1), texts |-> n])
    /\ embed_calls' = embed_calls + 1
    /\ i' = i + batch_size
    /\ UNCHANGED <<documents, doc_seq, batch_size, pc, nrecords, idx, record, stats,
                   existing_doc_id, document_id, chunks, tags, runs, kw_calls,
                   full_text, outcomes, written>>
    /\ UNCHANGED <<embedVars, kwVars, rrfVars, ragVars, raceVars, lookupVars,
                   restartVars, threadVars, workerVars,
                   chunkVars,
                   repairVars,
                   daoVars,
                   loadVars>>

\* embed_documents raises: nothing of this batch is inserted
EmbedBatchRaises ==
    /\ pc = "batch"
    /\ i < chunks
    /\ Except
    /\ UNCHANGED <<documents, doc_chunk, doc_seq, batch_size, nrecords, runs, written>>
    /\ UNCHANGED <<embedVars, kwVars, rrfVars, ragVars, raceVars, lookupVars,
                   restartVars, threadVars, workerVars,
                   chunkVars,
                   repairVars,
                   daoVars,
                   loadVars>>

\* conn.execute raises at the (n+1)-th row of the batch: n rows are in the table
InsertRowRaises(n) ==
    /\ pc = "batch"
    /\ i < chunks
    /\ n < BatchLen(batch_size, i, chunks)
    /\ doc_chunk' = doc_chunk \o BatchRows(document_id, i, n, tags, record)
    /\ Except
    /\ UNCHANGED <<documents, doc_seq, batch_size, nrecords, runs, written>>
    /\ UNCHANGED <<embedVars, kwVars, rrfVars, ragVars, raceVars, lookupVars,
                   restartVars, threadVars, workerVars,
                   chunkVars,
                   repairVars,
                   daoVars,
                   loadVars>>

\* the batch loop is over: stats["processed"] += 1
Processed ==
    /\ pc = "batch"
    /\ i >= chunks
    /\ stats' = Bump("processed")
    /\ Continue("processed")
    /\ written' = [written EXCEPT ![record] = SelectRows(doc_chunk, document_id)]
    /\ UNCHANGED <<documents, doc_chunk, doc_seq, batch_size, nrecords, runs>>
    /\ UNCHANGED <<embedVars, kwVars, rrfVars, ragVars, raceVars, lookupVars,
                   restartVars, threadVars, workerVars,
                   chunkVars,
                   repairVars,
                   daoVars,
                   loadVars>>

\* after the loop: conn.close() and the printed counts
FinishRun ==
    /\ pc = "loop"
    /\ idx > nrecords
    /\ pc' = "done"
    /\ UNCHANGED <<documents, doc_chunk, doc_seq, batch_size, nrecords, idx, record,
                   stats, existing_doc_id, document_id, chunks, tags, i, runs,
                   embed_calls, kw_calls, full_text, batches, outcomes, written>>
    /\ UNCHANGED <<embedVars, kwVars, rrfVars, ragVars, raceVars, lookupVars,
                   restartVars, threadVars, workerVars,
                   chunkVars,
                   repairVars,
                   daoVars,
                   loadVars>>

\* the process is killed while a record is being handled: what is in the tables
\* stays, the memory of the run is gone
Crash ==
    /\ pc \in {"file", "exists", "chunk", "keywords", "tags", "batch"}
    /\ pc' = "crashed"
    /\ ClearLocals
    /\ nrecords' = 0
    /\ idx' = 1
    /\ stats' = ZeroStats
    /\ outcomes' = <<>>
    /\ UNCHANGED <<documents, doc_chunk, doc_seq, batch_size, runs, written>>
    /\ UNCHANGED <<embedVars, kwVars, rrfVars, ragVars, raceVars, lookupVars,
                   restartVars, threadVars, workerVars,
                   chunkVars,
                   repairVars,
                   daoVars,
                   loadVars>>

IngestInit ==
    /\ documents = <<>>
    /\ doc_chunk = <<>>
    /\ doc_seq = 0
    /\ batch_size = DEFAULT_BATCH_SIZE
    /\ pc = "idle"
    /\ nrecords = 0
    /\ idx = 1
    /\ record = ""
    /\ stats = ZeroStats
    /\ existing_doc_id = None
    /\ document_id = None
    /\ chunks = 0
    /\ tags = NoTags
    /\ i = 0
    /\ runs = 0
    /\ embed_calls = 0
    /\ kw_calls = 0
    /\ full_text = 0
    /\ batches = <<>>
    /\ outcomes = <<>>
    /\ written = [p \in Paths |-> <<>>]

\* the steps of a running ingest_json call
RunStep ==
    \/ \E p \in Paths : LoopHead(p)
    \/ CheckFile
    \/ ExistingDocument
    \/ InsertDocument
    \/ InsertDocumentRaises
    \/ ProcessPdf
    \/ ProcessPdfRaises
    \/ \E t \in KeywordsOf(record) : ExtractKeywords(t)
    \/ \E s_ok \in BOOLEAN, c_ok \in BOOLEAN : EmbedTags(s_ok, c_ok)
    \/ EmbedBatch
    \/ EmbedBatchRaises
    \/ \E n \in 0..MaxFailRow : InsertRowRaises(n)
    \/ Processed
    \/ FinishRun

\* ingest_json calls that run to their end
LiveNext ==
    \/ \E n \in 1..MaxRecords : StartRun(n)
    \/ RunStep

IngestNext ==
    \/ LiveNext
    \/ Crash

\* =====================================================================
\* Two ingestion processes on one database: the window between the SELECT
\* of check_document_exists and the INSERT of insert_document
\* =====================================================================
\* idx_documents_file_path: would the unique index reject a row with this path
UniqueViolation(file_path) ==
    \E k \in 1..Len(documents) : documents[k].file_path = file_path

\* ingest_json and then insert_document found no row for the path: the
\* INSERT is the next statement
InsertDocumentCheck ==
    /\ pc = "exists"
    /\ None \in check_document_exists(record)
    /\ pc' = "insert"
    /\ UNCHANGED <<documents, doc_chunk, doc_seq, batch_size, nrecords, idx, record,
                   stats, existing_doc_id, document_id, chunks, tags, i, runs,
                   embed_calls, kw_calls, full_text, batches, outcomes, written>>
    /\ UNCHANGED <<raceVars, embedVars, kwVars, rrfVars, ragVars, lookupVars,
                   restartVars, threadVars, workerVars,
                   chunkVars,
                   repairVars,
                   daoVars,
                   loadVars>>

\* another ingest_json process, handling a record with the same file_path at
\* the same time, commits its insert_document inside this window (a row it
\* commits at any other time is seen by this run's checks, like the row of an
\* earlier run)
RivalInsertDocument ==
    /\ pc = "insert"
    /\ ~UniqueViolation(record)
    /\ doc_seq' = doc_seq + 1
    /\ documents' = Append(documents, [id |-> doc_seq + 1, file_path |-> record])
    /\ UNCHANGED <<doc_chunk, batch_size, pc, nrecords, idx, record, stats,
                   existing_doc_id, document_id, chunks, tags, i, runs, embed_calls,
                   kw_calls, full_text, batches, outcomes, written>>
    /\ UNCHANGED <<raceVars, embedVars, kwVars, rrfVars, ragVars, lookupVars,
                   restartVars, threadVars, workerVars,
                   chunkVars,
                   repairVars,
                   daoVars,
                   loadVars>>

\* conn.fetchval(INSERT ... RETURNING id): the new id, or the unique index
\* rejects the row, fetchval raises and the except of ingest_json counts an
\* error (the id drawn from the sequence for the rejected row is lost)
InsertDocumentInsert ==
    /\ pc = "insert"
    /\ doc_seq' = doc_seq + 1
    /\ IF UniqueViolation(record)
       THEN /\ rejected' = rejected \cup {record}
            /\ Except
            /\ UNCHANGED documents
       ELSE /\ documents' = Append(documents, [id |-> doc_seq + 1, file_path |-> record])
            /\ document_id' = doc_seq + 1
            /\ pc' = "chunk"
            /\ UNCHANGED <<rejected, idx, record, stats, existing_doc_id, chunks,
                           tags, i, embed_calls, kw_calls, full_text, batches,
                           outcomes>>
    /\ UNCHANGED <<doc_chunk, batch_size, nrecords, runs, written>>
    /\ UNCHANGED <<lookupVars, restartVars, embedVars, kwVars, rrfVars, ragVars,
                   threadVars, workerVars,
                   chunkVars,
                   repairVars,
                   daoVars,
                   loadVars>>

RaceInit == rejected = {}

RaceNext ==
    \/ IngestNext
    \/ InsertDocumentCheck
    \/ RivalInsertDocument
    \/ InsertDocumentInsert

\* =====================================================================
\* check_document_exists and insert_document called on their own
\* =====================================================================
\* the file_path arguments: the empty string, a single space, and two names
LookupPaths == {"", " ", "a.pdf", "b.pdf"}

\* check_document_exists(conn, p) returns found
CheckDocumentExists(p, found) ==
    /\ found \in check_document_exists(p)
    /\ lookup_path' = p
    /\ lookup_result' = found
    /\ lookup_pc' = "returned"
    /\ UNCHANGED <<ingestVars, raceVars, restartVars, embedVars, kwVars, rrfVars,
                   ragVars, threadVars, workerVars,
                   chunkVars,
                   repairVars,
                   daoVars,
                   loadVars>>

\* insert_document(conn, record) with record["file_path"] = p inserts a row:
\* its own check_document_exists found nothing and the unique index lets the
\* row in (the other calls return the existing id or raise, and change nothing)
LookupInsertDocument(p) ==
    /\ None \in check_document_exists(p)
    /\ ~UniqueViolation(p)
    /\ doc_seq' = doc_seq + 1
    /\ documents' = Append(documents, [id |-> doc_seq + 1, file_path |-> p])
    /\ UNCHANGED <<doc_chunk, batch_size, pc, nrecords, idx, record, stats,
                   existing_doc_id, document_id, chunks, tags, i, runs, embed_calls,
                   kw_calls, full_text, batches, outcomes, written>>
    /\ UNCHANGED <<raceVars, lookupVars, restartVars, embedVars, kwVars, rrfVars,
                   ragVars, threadVars, workerVars,
                   chunkVars,
                   repairVars,
                   daoVars,
                   loadVars>>

LookupInit ==
    /\ lookup_pc = "idle"
    /\ lookup_path = ""
    /\ lookup_result = None

LookupNext ==
    \/ \E p \in LookupPaths : \E found \in check_document_exists(p) :
           CheckDocumentExists(p, found)
    \/ \E p \in LookupPaths : LookupInsertDocument(p)

\* =====================================================================
\* Two ingestion workers (ingest_json processes on one database) handling a
\* record with the same file_path. Every statement sent to the store is a
\* step of its own.
\* =====================================================================
Workers == {1, 2}

\* the file_path of the record both workers handle
WorkerPath == "a.pdf"

\* what extract_keywords_llm and the tag embeddings give for that file
WorkerTags == [sectors |-> TRUE, companies |-> TRUE,
               sectors_embed |-> TRUE, companies_embed |-> TRUE]

\* the tables change, the single-process locals of ingest_json do not
WkFrame ==
    /\ UNCHANGED <<batch_size, pc, nrecords, idx, record, stats, existing_doc_id,
                   document_id, chunks, tags, i, runs, embed_calls, kw_calls,
                   full_text, batches, outcomes, written>>
    /\ UNCHANGED <<raceVars, lookupVars, restartVars, embedVars, kwVars, rrfVars,
                   ragVars, threadVars,
                   chunkVars,
                   repairVars,
                   daoVars,
                   loadVars>>

\* the loop body starts for the record
WkStart(w) ==
    /\ wk_pc[w] = "idle"
    /\ wk_pc' = [wk_pc EXCEPT ![w] = "exists"]
    /\ UNCHANGED <<documents, doc_chunk, doc_seq, wk_doc, wk_i, wk_out>>
    /\ WkFrame

\* existing_doc_id = await check_document_exists(conn, file_path)
WkCheckDocument(w) ==
    /\ wk_pc[w] = "exists"
    /\ \E found \in check_document_exists(WorkerPath) :
         /\ wk_doc' = [wk_doc EXCEPT ![w] = found]
         /\ wk_pc' = [wk_pc EXCEPT ![w] = IF found # None THEN "has_chunks"
                                          ELSE "insert_check"]
    /\ UNCHANGED <<documents, doc_chunk, doc_seq, wk_i, wk_out>>
    /\ WkFrame

\* has_chunks = await check_chunks_exist(conn, existing_doc_id): a duplicate,
\* or the document is handled under the existing id
WkCheckChunks(w) ==
    /\ wk_pc[w] = "has_chunks"
    /\ IF check_chunks_exist(wk_doc[w])
       THEN /\ wk_out' = [wk_out EXCEPT ![w] = "dup"]
            /\ wk_pc' = [wk_pc EXCEPT ![w] = "done"]
       ELSE /\ wk_out' = wk_out
            /\ wk_pc' = [wk_pc EXCEPT ![w] = "store"]
    /\ UNCHANGED <<documents, doc_chunk, doc_seq, wk_doc, wk_i>>
    /\ WkFrame

\* insert_document: existing_id = await check_document_exists(conn, file_path);
\* if existing_id: return existing_id
WkInsertCheck(w) ==
    /\ wk_pc[w] = "insert_check"
    /\ \E found \in check_document_exists(WorkerPath) :
         /\ wk_doc' = [wk_doc EXCEPT ![w] = found]
         /\ wk_pc' = [wk_pc EXCEPT ![w] = IF found # None THEN "store" ELSE "insert"]
    /\ UNCHANGED <<documents, doc_chunk, doc_seq, wk_i, wk_out>>
    /\ WkFrame

\* insert_document: conn.fetchval(INSERT ... RETURNING id); a row the unique
\* index rejects raises, and the record is counted an error
WkInsert(w) ==
    /\ wk_pc[w] = "insert"
    /\ doc_seq' = doc_seq + 1
    /\ IF UniqueViolation(WorkerPath)
       THEN /\ wk_out' = [wk_out EXCEPT ![w] = "error"]
            /\ wk_pc' = [wk_pc EXCEPT ![w] = "done"]
            /\ UNCHANGED <<documents, wk_doc>>
       ELSE /\ documents' = Append(documents,
                                    [id |-> doc_seq + 1, file_path |-> WorkerPath])
            /\ wk_doc' = [wk_doc EXCEPT ![w] = doc_seq + 1]
            /\ wk_pc' = [wk_pc EXCEPT ![w] = "store"]
            /\ wk_out' = wk_out
    /\ UNCHANGED <<doc_chunk, wk_i>>
    /\ WkFrame

\* process_pdf, extract_keywords_llm and the embedding calls touch no table;
\* then one conn.execute(insert_query, document_id, i + idx, ...) per chunk
WkStoreRow(w) ==
    /\ wk_pc[w] = "store"
    /\ wk_i[w] < ChunksOf(WorkerPath)
    /\ doc_chunk' = Append(doc_chunk,
                           BatchRows(wk_doc[w], 0, wk_i[w] + 1, WorkerTags, WorkerPath)[wk_i[w] + 1])
    /\ wk_i' = [wk_i EXCEPT ![w] = @ + 1]
    /\ UNCHANGED <<documents, doc_seq, wk_pc, wk_doc, wk_out>>
    /\ WkFrame

\* process_pdf, a provider call or an INSERT of a chunk raises: the record
\* is counted an error, the rows inserted so far stay
WkRaises(w) ==
    /\ wk_pc[w] = "store"
    /\ wk_i[w] < ChunksOf(WorkerPath)
    /\ wk_out' = [wk_out EXCEPT ![w] = "error"]
    /\ wk_pc' = [wk_pc EXCEPT ![w] = "done"]
    /\ UNCHANGED <<documents, doc_chunk, doc_seq, wk_doc, wk_i>>
    /\ WkFrame

\* the batch loop is over: stats["processed"] += 1
WkProcessed(w) ==
    /\ wk_pc[w] = "store"
    /\ wk_i[w] >= ChunksOf(WorkerPath)
    /\ wk_out' = [wk_out EXCEPT ![w] = "processed"]
    /\ wk_pc' = [wk_pc EXCEPT ![w] = "done"]
    /\ UNCHANGED <<documents, doc_chunk, doc_seq, wk_doc, wk_i>>
    /\ WkFrame

WorkerInit ==
    /\ wk_pc = [w \in Workers |-> "idle"]
    /\ wk_doc = [w \in Workers |-> None]
    /\ wk_i = [w \in Workers |-> 0]
    /\ wk_out = [w \in Workers |-> ""]

WorkerNext ==
    \E w \in Workers :
        \/ WkStart(w)
        \/ WkCheckDocument(w)
        \/ WkCheckChunks(w)
        \/ WkInsertCheck(w)
        \/ WkInsert(w)
        \/ WkStoreRow(w)
        \/ WkRaises(w)
        \/ WkProcessed(w)

\* =====================================================================
\* Character strings. A Python str is a sequence of one-character strings.
\* =====================================================================
\* the whitespace characters of the texts used here
IsSpace(c) == c \in {" ", "\n", "\t"}

\* the positions of s that hold no whitespace
Solid(s) == {j \in 1..Len(s) : ~IsSpace(s[j])}

\* str.strip(): leading and trailing whitespace removed
Strip(s) ==
    IF Solid(s) = {} THEN <<>>
    ELSE SubSeq(s, CHOOSE j \in Solid(s) : \A h \in Solid(s) : j <= h,
                   CHOOSE j \in Solid(s) : \A h \in Solid(s) : j >= h)

\* =====================================================================
\* openai_manager/connector.py: the retry decorator around get_embeddings
\* =====================================================================
\* Config.OPENAI_RETRY
OPENAI_RETRY == 3
\* retry: delay = 1
delay == 1
\* retry: backoff = 1
backoff == 1

\* the texts get_embeddings is called with: empty, bare, the same word with
\* surrounding whitespace, another word, and two words with inner whitespace
EmbedTexts == {<<>>, <<"a">>, <<" ", "a", " ">>, <<"b">>, <<"a", " ", "b">>}

\* what a Python call hands back: None, or the vector the provider computed
\* for an input
NoneValue == [kind |-> "None", of |-> <<>>]
Embedding(input) == [kind |-> "embedding", of |-> input]

\* get_embeddings: cleaned = text.strip()
Cleaned(text) == Strip(text)

NeedsCallMutant(c) == c # <<>>
NeedsCallBlankMutant(c) == c \notin DOMAIN embedding_cache
\* get_embeddings: if (cleaned) and (cleaned not in self.embedding_cache)
NeedsCall(c) == c # <<>> /\ c \notin DOMAIN embedding_cache

\* self.embedding_cache.get(cleaned) on cache cc
CacheGet(cc, c) == IF c \in DOMAIN cc THEN cc[c] ELSE NoneValue

CachePutMutant(c, e) == [key \in {c} |-> e]
\* self.embedding_cache[cleaned] = embedding
CachePut(c, e) ==
    [key \in DOMAIN embedding_cache \cup {c} |->
        IF key = c THEN e ELSE embedding_cache[key]]

NextDelayMutant(d) == d * 2
\* retry: cur_delay *= backoff
NextDelay(d) == d * backoff

\* the wrapper returns value to its caller after `failed` failed attempts and
\* `ok` successful provider calls
Return(value, failed, ok) ==
    /\ emb_done' = Append(emb_done, [text |-> emb_text, value |-> value,
                                     failed |-> failed, ok |-> ok])
    /\ emb_pc' = "returned"
    /\ cur_attempt' = 0
    /\ cur_delay' = delay

\* wrapper(*args): cur_attempt = 0, cur_delay = delay, the for loop starts
CallGetEmbeddings(t) ==
    /\ emb_pc \in {"idle", "returned"}
    /\ Len(emb_done) < MaxCalls
    /\ emb_text' = t
    /\ cur_attempt' = 0
    /\ cur_delay' = delay
    /\ sleeps' = <<>>
    /\ emb_pc' = "attempt"
    /\ UNCHANGED <<embedding_cache, emb_done>>
    /\ UNCHANGED <<ingestVars, kwVars, rrfVars, ragVars, raceVars, lookupVars,
                   restartVars, threadVars, workerVars,
                   chunkVars,
                   repairVars,
                   daoVars,
                   loadVars>>

\* an attempt that needs no provider call: blank text or a cached text
AttemptWithoutCall ==
    /\ emb_pc = "attempt"
    /\ cur_attempt < OPENAI_RETRY
    /\ ~NeedsCall(Cleaned(emb_text))
    /\ Return(CacheGet(embedding_cache, Cleaned(emb_text)), cur_attempt, 0)
    /\ UNCHANGED <<embedding_cache, emb_text, sleeps>>
    /\ UNCHANGED <<ingestVars, kwVars, rrfVars, ragVars, raceVars, lookupVars,
                   restartVars, threadVars, workerVars,
                   chunkVars,
                   repairVars,
                   daoVars,
                   loadVars>>

\* an attempt whose provider call answers: the vector is cached and returned
AttemptCallOk ==
    /\ emb_pc = "attempt"
    /\ cur_attempt < OPENAI_RETRY
    /\ NeedsCall(Cleaned(emb_text))
    /\ embedding_cache' = CachePut(Cleaned(emb_text), Embedding(Cleaned(emb_text)))
    /\ Return(CacheGet(embedding_cache', Cleaned(emb_text)), cur_attempt, 1)
    /\ UNCHANGED <<emb_text, sleeps>>
    /\ UNCHANGED <<ingestVars, kwVars, rrfVars, ragVars, raceVars, lookupVars,
                   restartVars, threadVars, workerVars,
                   chunkVars,
                   repairVars,
                   daoVars,
                   loadVars>>

\* an attempt whose provider call raises: warning, time.sleep(cur_delay),
\* cur_delay *= backoff, next iteration
AttemptCallRaises ==
    /\ emb_pc = "attempt"
    /\ cur_attempt < OPENAI_RETRY
    /\ NeedsCall(Cleaned(emb_text))
    /\ sleeps' = Append(sleeps, cur_delay)
    /\ cur_delay' = NextDelay(cur_delay)
    /\ cur_attempt' = cur_attempt + 1
    /\ UNCHANGED <<embedding_cache, emb_pc, emb_text, emb_done>>
    /\ UNCHANGED <<ingestVars, kwVars, rrfVars, ragVars, raceVars, lookupVars,
                   restartVars, threadVars, workerVars,
                   chunkVars,
                   repairVars,
                   daoVars,
                   loadVars>>

\* the for loop is over: root_logger.exception(...), and the wrapper falls off
\* its end, which hands None to the caller
Exhausted ==
    /\ emb_pc = "attempt"
    /\ cur_attempt >= OPENAI_RETRY
    /\ Return(NoneValue, cur_attempt, 0)
    /\ UNCHANGED <<embedding_cache, emb_text, sleeps>>
    /\ UNCHANGED <<ingestVars, kwVars, rrfVars, ragVars, raceVars, lookupVars,
                   restartVars, threadVars, workerVars,
                   chunkVars,
                   repairVars,
                   daoVars,
                   loadVars>>

EmbedInit ==
    /\ embedding_cache = [key \in {} |-> NoneValue]
    /\ emb_pc = "idle"
    /\ emb_text = <<>>
    /\ cur_attempt = 0
    /\ cur_delay = delay
    /\ sleeps = <<>>
    /\ emb_done = <<>>

EmbedNext ==
    \/ \E t \in EmbedTexts : CallGetEmbeddings(t)
    \/ AttemptWithoutCall
    \/ AttemptCallOk
    \/ AttemptCallRaises
    \/ Exhausted

\* =====================================================================
\* openai_manager/connector.py: the cache file and the restart of the process
\* =====================================================================
\* no file at CACHE_PATH
NoFile == [exists |-> FALSE, content |-> [key \in {} |-> NoneValue]]

\* _load_embedding_cache: {} updated with the dict of the file, if there is one
load_embedding_cache(file) ==
    IF file.exists THEN file.content ELSE [key \in {} |-> NoneValue]

\* the process ends between two calls and is started again. Nothing is written
\* at its end (_save_embedding_cache has no caller); OPENAI_MANAGER() loads
\* the file
Restart ==
    /\ emb_pc \in {"idle", "returned"}
    /\ restarts < MaxRestarts
    /\ restarts' = restarts + 1
    /\ earlier_keys' = earlier_keys \cup DOMAIN embedding_cache
    /\ embedding_cache' = load_embedding_cache(cache_file)
    /\ emb_pc' = "idle"
    /\ UNCHANGED <<cache_file, emb_text, cur_attempt, cur_delay, sleeps, emb_done>>
    /\ UNCHANGED <<ingestVars, raceVars, lookupVars, kwVars, rrfVars, ragVars,
                   threadVars, workerVars,
                   chunkVars,
                   repairVars,
                   daoVars,
                   loadVars>>

RestartInit ==
    /\ cache_file = NoFile
    /\ restarts = 0
    /\ earlier_keys = {}

RestartNext ==
    \/ EmbedNext
    \/ Restart

\* =====================================================================
\* openai_manager/connector.py: get_embeddings called by the threads of one
\* process on one OPENAI_MANAGER. The provider answers every request here;
\* requests that raise are the subject of the one-caller specification.
\* =====================================================================
Threads == {1, 2}

\* the texts the threads call with: a word, the same word after a space,
\* another word
ThreadTexts == {<<"a">>, <<" ", "a">>, <<"b">>}

\* thread w calls get_embeddings(t)
ThCall(w, t) ==
    /\ th_pc[w] = "idle"
    /\ th_calls[w] < MaxThreadCalls
    /\ th_calls' = [th_calls EXCEPT ![w] = @ + 1]
    /\ th_text' = [th_text EXCEPT ![w] = t]
    /\ th_pc' = [th_pc EXCEPT ![w] = "check"]
    /\ UNCHANGED <<th_ret, th_requests, embedding_cache>>
    /\ UNCHANGED <<emb_pc, emb_text, cur_attempt, cur_delay, sleeps, emb_done>>
    /\ UNCHANGED <<ingestVars, raceVars, lookupVars, restartVars, kwVars, rrfVars,
                   ragVars, workerVars,
                   chunkVars,
                   repairVars,
                   daoVars,
                   loadVars>>

\* cleaned = text.strip(); if (cleaned) and (cleaned not in self.embedding_cache)
ThCheck(w) ==
    /\ th_pc[w] = "check"
    /\ th_pc' = [th_pc EXCEPT ![w] = IF NeedsCall(Cleaned(th_text[w]))
                                     THEN "create" ELSE "get"]
    /\ UNCHANGED <<th_text, th_ret, th_calls, th_requests, embedding_cache>>
    /\ UNCHANGED <<emb_pc, emb_text, cur_attempt, cur_delay, sleeps, emb_done>>
    /\ UNCHANGED <<ingestVars, raceVars, lookupVars, restartVars, kwVars, rrfVars,
                   ragVars, workerVars,
                   chunkVars,
                   repairVars,
                   daoVars,
                   loadVars>>

\* response = self.openai_client.embeddings.create(input=cleaned)
ThCreate(w) ==
    /\ th_pc[w] = "create"
    /\ th_requests' = Append(th_requests, Cleaned(th_text[w]))
    /\ th_pc' = [th_pc EXCEPT ![w] = "put"]
    /\ UNCHANGED <<th_text, th_ret, th_calls, embedding_cache>>
    /\ UNCHANGED <<emb_pc, emb_text, cur_attempt, cur_delay, sleeps, emb_done>>
    /\ UNCHANGED <<ingestVars, raceVars, lookupVars, restartVars, kwVars, rrfVars,
                   ragVars, workerVars,
                   chunkVars,
                   repairVars,
                   daoVars,
                   loadVars>>

\* self.embedding_cache[cleaned] = embedding
ThPut(w) ==
    /\ th_pc[w] = "put"
    /\ embedding_cache' = CachePut(Cleaned(th_text[w]), Embedding(Cleaned(th_text[w])))
    /\ th_pc' = [th_pc EXCEPT ![w] = "get"]
    /\ UNCHANGED <<th_text, th_ret, th_calls, th_requests>>
    /\ UNCHANGED <<emb_pc, emb_text, cur_attempt, cur_delay, sleeps, emb_done>>
    /\ UNCHANGED <<ingestVars, raceVars, lookupVars, restartVars, kwVars, rrfVars,
                   ragVars, workerVars,
                   chunkVars,
                   repairVars,
                   daoVars,
                   loadVars>>

\* return self.embedding_cache.get(cleaned)
ThGet(w) ==
    /\ th_pc[w] = "get"
    /\ th_ret' = [th_ret EXCEPT ![w] = CacheGet(embedding_cache, Cleaned(th_text[w]))]
    /\ th_pc' = [th_pc EXCEPT ![w] = "idle"]
    /\ UNCHANGED <<th_text, th_calls, th_requests, embedding_cache>>
    /\ UNCHANGED <<emb_pc, emb_text, cur_attempt, cur_delay, sleeps, emb_done>>
    /\ UNCHANGED <<ingestVars, raceVars, lookupVars, restartVars, kwVars, rrfVars,
                   ragVars, workerVars,
                   chunkVars,
                   repairVars,
                   daoVars,
                   loadVars>>

ThreadInit ==
    /\ th_pc = [w \in Threads |-> "idle"]
    /\ th_text = [w \in Threads |-> <<>>]
    /\ th_ret = [w \in Threads |-> NoneValue]
    /\ th_calls = [w \in Threads |-> 0]
    /\ th_requests = <<>>

ThreadNext ==
    \E w \in Threads :
        \/ \E t \in ThreadTexts : ThCall(w, t)
        \/ ThCheck(w)
        \/ ThCreate(w)
        \/ ThPut(w)
        \/ ThGet(w)

\* =====================================================================
\* rag/keyword_extraction.py: extract_keywords_llm
\* =====================================================================
MAX_TOKENS_PER_LLM_CALL == 30000
\* len("\n\n[Text truncated for keyword extraction]")
TRUNCATION_NOTE_LEN == 41
\* the [:40] of both lists and of the fallback
KEYWORD_CAP == 40
\* the {3,100} of the fallback pattern
QUOTED_MIN == 3
QUOTED_MAX == 100

\* the length of truncate_for_llm(text) for a text of n characters
truncate_for_llm(n) ==
    LET max_chars == MAX_TOKENS_PER_LLM_CALL * 4
    IN IF n <= max_chars THEN n ELSE max_chars + TRUNCATION_NOTE_LEN

\* document lengths: empty, exactly at the limit, one character over it
TextLengths == {0, MAX_TOKENS_PER_LLM_CALL * 4, MAX_TOKENS_PER_LLM_CALL * 4 + 1}

\* ---------------------------------------------------------------- JSON
DQ == "\""
Digits == {"0", "1", "2", "3", "4", "5", "6", "7", "8", "9"}

\* a decoded JSON value: t is its Python type, v its content
J(t, v) == [t |-> t, v |-> v]
JNull == J("NoneType", <<>>)
EmptyList == J("list", <<>>)

ParseFail == [ok |-> FALSE, v |-> JNull, p |-> 0]
Parsed(val, p) == [ok |-> TRUE, v |-> val, p |-> p]

\* s has the characters w at position p
HasAt(s, p, w) == p + Len(w) - 1 <= Len(s) /\ SubSeq(s, p, p + Len(w) - 1) = w

\* how often the character c stands in s
Count(s, c) == Cardinality({j \in 1..Len(s) : s[j] = c})

\* the smallest element of a non-empty set of positions
Least(positions) == CHOOSE j \in positions : \A h \in positions : j <= h

\* the first position at or after p that holds no whitespace
SkipWs(s, p) == Least({j \in p..(Len(s) + 1) : j > Len(s) \/ ~IsSpace(s[j])})

\* the position of the first double quote at or after p, Len(s) + 1 if none
NextQuote(s, p) == Least({j \in p..Len(s) : s[j] = DQ} \cup {Len(s) + 1})

\* the first position at or after p that holds no digit
DigitsEnd(s, p) == Least({j \in p..(Len(s) + 1) : j > Len(s) \/ s[j] \notin Digits})

\* a string literal at p (the texts here have no backslash); json refuses a
\* line break inside a string
ParseString(s, p) ==
    LET q == NextQuote(s, p + 1)
    IN IF q > Len(s) \/ \E j \in (p + 1)..(q - 1) : s[j] \in {"\n", "\t"}
       THEN ParseFail
       ELSE Parsed(J("str", SubSeq(s, p + 1, q - 1)), q + 1)

\* an integer literal at p: 0, or digits that do not start with 0
ParseNumber(s, p) ==
    LET q == IF s[p] = "0" THEN p + 1 ELSE DigitsEnd(s, p)
    IN Parsed(J("int", SubSeq(s, p, q - 1)), q)

RECURSIVE ParseValue(_, _)
RECURSIVE ElemLoop(_, _, _)
RECURSIVE ParseMembers(_, _, _)

\* the JSON value that starts at p
ParseValue(s, p) ==
    CASE HasAt(s, p, <<DQ>>) -> ParseString(s, p)
      [] p <= Len(s) /\ s[p] \in Digits -> ParseNumber(s, p)
      [] HasAt(s, p, <<"n", "u", "l", "l">>) -> Parsed(JNull, p + 4)
      [] HasAt(s, p, <<"t", "r", "u", "e">>) -> Parsed(J("bool", <<"1">>), p + 4)
      [] HasAt(s, p, <<"f", "a", "l", "s", "e">>) -> Parsed(J("bool", <<>>), p + 5)
      [] HasAt(s, p, <<"[">>) ->
            LET q == SkipWs(s, p + 1)
            IN IF q <= Len(s) /\ s[q] = "]" THEN Parsed(EmptyList, q + 1)
               ELSE ElemLoop(s, [open |-> TRUE, p |-> q, acc |-> <<>>, res |-> ParseFail],
                             Count(s, ",") + 1).res
      [] HasAt(s, p, <<"{">>) ->
            LET q == SkipWs(s, p + 1)
            IN IF q <= Len(s) /\ s[q] = "}" THEN Parsed(J("dict", <<>>), q + 1)
               ELSE ParseMembers(s, q, <<>>)
      [] OTHER -> ParseFail

\* one turn of the decoder's loop over the elements of an array: the next
\* element starts at st.p, st.acc holds the elements read so far; the loop ends
\* (st.open is FALSE) with the result st.res at the closing bracket or at the
\* first error
ParseElems(s, st) ==
    IF ~st.open THEN st
    ELSE LET r == ParseValue(s, st.p)
             q == SkipWs(s, r.p)
         IN IF ~r.ok \/ q > Len(s) THEN [st EXCEPT !.open = FALSE, !.res = ParseFail]
            ELSE IF s[q] = "]"
                 THEN [st EXCEPT !.open = FALSE,
                                 !.res = Parsed(J("list", Append(st.acc, r.v)), q + 1)]
            ELSE IF s[q] = ","
                 THEN [st EXCEPT !.p = SkipWs(s, q + 1), !.acc = Append(@, r.v)]
            ELSE [st EXCEPT !.open = FALSE, !.res = ParseFail]

\* k turns of that loop, the first half of them before the second; every turn
\* but the last passes a comma, so one turn more than s has commas ends the loop
ElemLoop(s, st, k) ==
    CASE k = 1 -> ParseElems(s, st)
      [] k > 1 -> LET half == ElemLoop(s, st, k \div 2)
                  IN IF half.open THEN ElemLoop(s, half, k - k \div 2) ELSE half

\* the rest of an object whose next key starts at p
ParseMembers(s, p, acc) ==
    IF p > Len(s) \/ s[p] # DQ THEN ParseFail
    ELSE LET key == ParseString(s, p)
         IN IF ~key.ok THEN ParseFail
            ELSE LET c == SkipWs(s, key.p)
                 IN IF c > Len(s) \/ s[c] # ":" THEN ParseFail
                    ELSE LET r == ParseValue(s, SkipWs(s, c + 1))
                         IN IF ~r.ok THEN ParseFail
                            ELSE LET q == SkipWs(s, r.p)
                                     m == Append(acc, [key |-> key.v.v, val |-> r.v])
                                 IN IF q > Len(s) THEN ParseFail
                                    ELSE IF s[q] = "}" THEN Parsed(J("dict", m), q + 1)
                                    ELSE IF s[q] = ","
                                         THEN ParseMembers(s, SkipWs(s, q + 1), m)
                                    ELSE ParseFail

\* json.loads(s): one value with optional whitespace around it; ok is FALSE
\* where json.loads raises JSONDecodeError
json_loads(s) ==
    LET r == ParseValue(s, SkipWs(s, 1))
    IN IF r.ok /\ SkipWs(s, r.p) > Len(s) THEN r ELSE ParseFail

RECURSIVE DictGet(_, _, _)
\* data.get(key, default) on the members of a dict (a repeated key keeps its
\* last value)
DictGet(members, key, default) ==
    IF Len(members) = 0 THEN default
    ELSE LET last == members[Len(members)]
         IN IF last.key = key THEN last.val
            ELSE DictGet(SubSeq(members, 1, Len(members) - 1), key, default)

\* can a for loop run over the value
Iterable(val) == val.t \in {"list", "str", "dict"}

\* the items a for loop over the value sees: the elements of a list, the
\* characters of a str, the keys of a dict
Items(val) ==
    IF val.t = "list" THEN val.v
    ELSE IF val.t = "str" THEN [j \in 1..Len(val.v) |-> J("str", <<val.v[j]>>)]
    ELSE [j \in 1..Len(val.v) |-> J("str", val.v[j].key)]

KeepsMutant(item) == item.t = "str"
\* isinstance(s, str) and s.strip()
Keeps(item) == item.t = "str" /\ Len(Strip(item.v)) > 0

\* [s.strip() for s in items if isinstance(s, str) and s.strip()]
CleanList(items) ==
    LET kept == SelectSeq(items, Keeps)
    IN [j \in 1..Len(kept) |-> J(kept[j].t, Strip(kept[j].v))]

CapMutant(l) == l
\* l[:40]
Cap(l) == SubSeq(l, 1, IF Len(l) < KEYWORD_CAP THEN Len(l) ELSE KEYWORD_CAP)

\* ------------------------------------------------- the two regular expressions
\* the character ` (a TLA+ string cannot hold it)
BACKTICK == "backtick"
FENCE == <<BACKTICK, BACKTICK, BACKTICK>>
FENCE_JSON == FENCE \o <<"j", "s", "o", "n">>

\* ^ and $ under re.MULTILINE
AtLineStart(s, p) == p = 1 \/ s[p - 1] = "\n"
AtLineEnd(s, p) == p > Len(s) \/ s[p] = "\n"

\* the end of the match of ^```json\s*|```$ that starts at p (p itself if none)
FenceEnd(s, p) ==
    IF AtLineStart(s, p) /\ HasAt(s, p, FENCE_JSON) THEN SkipWs(s, p + Len(FENCE_JSON))
    ELSE IF HasAt(s, p, FENCE) /\ AtLineEnd(s, p + Len(FENCE)) THEN p + Len(FENCE)
    ELSE p

RECURSIVE Unfence(_, _)
\* re.sub(r"^```json\s*|```$", "", s, flags=re.MULTILINE), from position p on:
\* the text up to the next match, then the text after that match
Unfence(s, p) ==
    LET starts == {j \in p..Len(s) : s[j] = BACKTICK /\ FenceEnd(s, j) > j}
    IN IF starts = {} THEN SubSeq(s, p, Len(s))
       ELSE SubSeq(s, p, Least(starts) - 1) \o Unfence(s, FenceEnd(s, Least(starts)))

\* one turn of the search loop of re.findall(r'"([^"]{3,100})"', s), which
\* stands at st.p with the matches st.acc: a match starts at a double quote and
\* ends at the next one, with 3 to 100 characters between; the search goes on
\* after the match, or after the quote that started none
QuotedStep(s, st) ==
    LET a == NextQuote(s, st.p)
        q == NextQuote(s, a + 1)
        n == q - a - 1
    IN IF a > Len(s) THEN [st EXCEPT !.p = Len(s) + 1]
       ELSE IF q <= Len(s) /\ n >= QUOTED_MIN /\ n <= QUOTED_MAX
            THEN [p |-> q + 1, acc |-> Append(st.acc, J("str", SubSeq(s, a + 1, q - 1)))]
            ELSE [st EXCEPT !.p = a + 1]

RECURSIVE QuotedLoop(_, _, _)
\* k turns of that loop, the first half of them before the second; it is over
\* once st.p is past the end of s
QuotedLoop(s, st, k) ==
    CASE k = 1 -> QuotedStep(s, st)
      [] k > 1 -> LET half == QuotedLoop(s, st, k \div 2)
                  IN IF half.p > Len(s) THEN half ELSE QuotedLoop(s, half, k - k \div 2)

\* re.findall(r'"([^"]{3,100})"', s), from position p on: every turn but the
\* last passes a double quote, so one turn more than s has quotes reaches the end
FindQuoted(s, p) == QuotedLoop(s, [p |-> p, acc |-> <<>>], Count(s, DQ) + 1).acc

\* -------------------------------------------------- provider responses
\* texts are written with these helpers
Quoted(w) == <<DQ>> \o w \o <<DQ>>
RECURSIVE Join(_, _)
Join(parts, sep) ==
    IF Len(parts) = 0 THEN <<>>
    ELSE IF Len(parts) = 1 THEN parts[1]
    ELSE LET h == Len(parts) \div 2
         IN Join(SubSeq(parts, 1, h), sep) \o sep \o Join(SubSeq(parts, h + 1, Len(parts)), sep)
Arr(elems) == <<"[">> \o Join(elems, <<",", " ">>) \o <<"]">>
Member(key, val) == Quoted(key) \o <<":", " ">> \o val
Obj(members) == <<"{">> \o Join(members, <<",", " ">>) \o <<"}">>

AFFECTED_SECTORS ==
    <<"a", "f", "f", "e", "c", "t", "e", "d", "_", "s", "e", "c", "t", "o", "r", "s">>
NAMED_COMPANIES ==
    <<"n", "a", "m", "e", "d", "_", "c", "o", "m", "p", "a", "n", "i", "e", "s">>
BANKS == <<"b", "a", "n", "k", "s">>
LAW_FIRMS == <<" ", "l", "a", "w", " ", "f", "i", "r", "m", "s", " ">>
HSBC == <<"H", "S", "B", "C">>
UK == <<"U", "K">>
BLANK == <<" ", " ", " ">>
SEVEN == <<"7">>
NULL == <<"n", "u", "l", "l">>

\* a word of KEYWORD_CAP + 1 letters
LongWord == [j \in 1..(KEYWORD_CAP + 1) |-> "x"]

FullObject ==
    Obj(<<Member(AFFECTED_SECTORS, Arr(<<Quoted(BANKS), Quoted(LAW_FIRMS)>>)),
          Member(NAMED_COMPANIES, Arr(<<Quoted(HSBC)>>))>>)

\* a list of KEYWORD_CAP + 3 entries, KEYWORD_CAP + 1 of them non-blank strings
ManyEntries ==
    Arr([j \in 1..(KEYWORD_CAP + 3) |->
            IF j = 2 THEN SEVEN
            ELSE IF j = 3 THEN Quoted(BLANK)
            ELSE IF j % 2 = 0 THEN Quoted(UK)
            ELSE Quoted(HSBC)])

\* KEYWORD_CAP + 1 quoted names in a row, no JSON
ManyQuoted == Join([j \in 1..(KEYWORD_CAP + 1) |-> Quoted(IF j = 2 THEN BANKS ELSE HSBC)], <<" ">>)

\* a quoted word of QUOTED_MAX + 1 letters, then a quoted word of QUOTED_MIN
TooLongQuoted == Quoted([j \in 1..(QUOTED_MAX + 1) |-> "x"]) \o <<" ">> \o Quoted(<<"t", "a", "x">>)

\* the texts resp.content can be
ResponseTexts == {
    <<>>,
    BLANK,
    <<"n", "o", "n", "e">>,
    <<"S", "e", "c", "t", "o", "r", "s", ":", " ">> \o Quoted(UK) \o <<" ">>
        \o Quoted(BANKS) \o <<" ">> \o Quoted(BLANK) \o <<" ">> \o Quoted(LAW_FIRMS),
    <<"{">> \o Member(AFFECTED_SECTORS, <<"[">> \o Quoted(BANKS) \o <<",", " ", DQ, "c", "r">>),
    NULL,
    SEVEN,
    Quoted(BANKS),
    Arr(<<Quoted(BANKS)>>),
    Obj(<<>>),
    Obj(<<Member(BANKS, SEVEN)>>),
    Obj(<<Member(AFFECTED_SECTORS,
                 Arr(<<Quoted(BANKS), Quoted(BLANK), SEVEN, NULL, Quoted(LAW_FIRMS),
                       Arr(<<Quoted(UK)>>)>>))>>),
    FullObject,
    <<" ", "\n">> \o FullObject \o <<"\n">>,
    FENCE_JSON \o <<"\n">> \o FullObject \o <<"\n">> \o FENCE,
    FENCE \o <<"\n">> \o FullObject \o <<"\n">> \o FENCE,
    Obj(<<Member(AFFECTED_SECTORS, Quoted(BANKS))>>),
    Obj(<<Member(AFFECTED_SECTORS, SEVEN)>>),
    Obj(<<Member(AFFECTED_SECTORS, NULL)>>),
    Obj(<<Member(AFFECTED_SECTORS, Obj(<<Member(BANKS, SEVEN)>>))>>),
    Obj(<<Member(AFFECTED_SECTORS, Arr(<<Quoted(BANKS)>>)), Member(NAMED_COMPANIES, SEVEN)>>),
    Obj(<<Member(NAMED_COMPANIES, Arr(<<Quoted(HSBC), Quoted(UK)>>))>>),
    Obj(<<Member(AFFECTED_SECTORS, Quoted(LongWord))>>),
    Obj(<<Member(NAMED_COMPANIES, ManyEntries)>>),
    ManyQuoted,
    TooLongQuoted
}

\* what llm.invoke(prompt) does: it raises, it answers with content that is
\* not a str, or it answers with a text
ProviderOutcomes ==
    {[kind |-> "raises", content |-> <<>>], [kind |-> "nonstr", content |-> <<>>]}
    \cup {[kind |-> "str", content |-> c] : c \in ResponseTexts}

\* ------------------------------------------------------ the try block
Keywords(sectors, companies) ==
    [affected_sectors |-> sectors, named_companies |-> companies]

\* how the try block ends: with a return value, or with an exception, and
\* whether the local `content` was assigned by then
TryReturns(c, ret) == [exc |-> "", bound |-> TRUE, content |-> c, ret |-> ret]
TryRaises(exc, is_bound, c) ==
    [exc |-> exc, bound |-> is_bound, content |-> c, ret |-> Keywords(<<>>, <<>>)]

TryBlock(resp) ==
    IF resp.kind = "raises" THEN TryRaises("Exception", FALSE, <<>>)
    ELSE IF resp.kind = "nonstr" THEN TryRaises("AttributeError", FALSE, <<>>)
    ELSE LET content == Strip(Unfence(Strip(resp.content), 1))
             data == json_loads(content)
         IN IF ~data.ok THEN TryRaises("JSONDecodeError", TRUE, content)
            ELSE IF data.v.t # "dict" THEN TryRaises("AttributeError", TRUE, content)
            ELSE LET sectors == DictGet(data.v.v, AFFECTED_SECTORS, EmptyList)
                     companies == DictGet(data.v.v, NAMED_COMPANIES, EmptyList)
                 IN IF ~Iterable(sectors) \/ ~Iterable(companies)
                    THEN TryRaises("TypeError", TRUE, content)
                    ELSE TryReturns(content, Keywords(Cap(CleanList(Items(sectors))),
                                                      Cap(CleanList(Items(companies)))))

HandledMutant(exc) == exc = "JSONDecodeError"
\* except json.JSONDecodeError / except Exception: both only log
Handled(exc) == exc \in {"JSONDecodeError", "Exception", "AttributeError", "TypeError"}

\* extract_keywords_llm(text, llm): the prompt is built around truncate_for_llm(text)
KwCall(n) ==
    /\ kw_pc = "idle"
    /\ kw_text_len' = n
    /\ kw_doc_len' = truncate_for_llm(n)
    /\ kw_pc' = "invoke"
    /\ kw_resp' = [kind |-> "none", content |-> <<>>]
    /\ kw_bound' = FALSE
    /\ kw_content' = <<>>
    /\ kw_result' = [raised |-> FALSE, value |-> Keywords(<<>>, <<>>)]
    /\ UNCHANGED <<ingestVars, embedVars, rrfVars, ragVars, raceVars, lookupVars,
                   restartVars, threadVars, workerVars,
                   chunkVars,
                   repairVars,
                   daoVars,
                   loadVars>>

\* resp = llm.invoke(prompt)
KwInvoke(r) ==
    /\ kw_pc = "invoke"
    /\ kw_resp' = r
    /\ kw_pc' = "try"
    /\ UNCHANGED <<kw_text_len, kw_doc_len, kw_bound, kw_content, kw_result>>
    /\ UNCHANGED <<ingestVars, embedVars, rrfVars, ragVars, raceVars, lookupVars,
                   restartVars, threadVars, workerVars,
                   chunkVars,
                   repairVars,
                   daoVars,
                   loadVars>>

\* the try block and its two except clauses
KwTry ==
    /\ kw_pc = "try"
    /\ LET b == TryBlock(kw_resp)
       IN /\ kw_bound' = b.bound
          /\ kw_content' = b.content
          /\ IF b.exc = ""
             THEN kw_result' = [raised |-> FALSE, value |-> b.ret] /\ kw_pc' = "returned"
             ELSE IF Handled(b.exc)
             THEN kw_result' = kw_result /\ kw_pc' = "fallback"
             ELSE kw_result' = [raised |-> TRUE, value |-> b.ret] /\ kw_pc' = "returned"
    /\ UNCHANGED <<kw_text_len, kw_doc_len, kw_resp>>
    /\ UNCHANGED <<ingestVars, embedVars, rrfVars, ragVars, raceVars, lookupVars,
                   restartVars, threadVars, workerVars,
                   chunkVars,
                   repairVars,
                   daoVars,
                   loadVars>>

\* the fallback: quoted strings of content; an unassigned content raises
\* NameError, which the bare except turns into two empty lists
KwFallback ==
    /\ kw_pc = "fallback"
    /\ kw_result' =
         [raised |-> FALSE,
          value |-> IF kw_bound
                    THEN Keywords(Cap(CleanList(FindQuoted(kw_content, 1))), <<>>)
                    ELSE Keywords(<<>>, <<>>)]
    /\ kw_pc' = "returned"
    /\ UNCHANGED <<kw_text_len, kw_doc_len, kw_resp, kw_bound, kw_content>>
    /\ UNCHANGED <<ingestVars, embedVars, rrfVars, ragVars, raceVars, lookupVars,
                   restartVars, threadVars, workerVars,
                   chunkVars,
                   repairVars,
                   daoVars,
                   loadVars>>

KwInit ==
    /\ kw_pc = "idle"
    /\ kw_text_len = 0
    /\ kw_doc_len = 0
    /\ kw_resp = [kind |-> "none", content |-> <<>>]
    /\ kw_bound = FALSE
    /\ kw_content = <<>>
    /\ kw_result = [raised |-> FALSE, value |-> Keywords(<<>>, <<>>)]

KwNext ==
    \/ \E n \in TextLengths : KwCall(n)
    \/ \E r \in ProviderOutcomes : KwInvoke(r)
    \/ KwTry
    \/ KwFallback

\* =====================================================================
\* rag/rag_engine.py: hybrid_search (Reciprocal Rank Fusion)
\* =====================================================================
\* ids of the DocChunk rows the two queries can return
ChunkIds == {"A", "B", "C", "D"}

\* the rows one query returns: no row twice, at most MaxRank rows
Rankings ==
    {r \in UNION {[1..n -> ChunkIds] : n \in 0..MaxRank} :
        \A j, k \in 1..Len(r) : j # k => r[j] # r[k]}

\* values of the alpha parameter (60 is its default)
Alphas == {1, 60}
\* values of the limit parameter (5 is its default)
Limits == {1, 2, 5}

\* scores are exact fractions <<numerator, denominator>>
Zero == <<0, 1>>
FracAdd(x, y) == <<x[1] * y[2] + y[1] * x[2], x[2] * y[2]>>
FracLess(x, y) == x[1] * y[2] < y[1] * x[2]
FracEq(x, y) == x[1] * y[2] = y[1] * x[2]

RankOfMutant(position) == position
\* enumerate(results): the rank of the row at a 1-based position
RankOf(position) == position - 1

\* rrf_score.get(doc.id, 0)
ScoreGet(score, d) == IF d \in DOMAIN score THEN score[d] ELSE Zero

\* rrf_score[doc.id] = rrf_score.get(doc.id, 0) + (1 / (alpha + rank))
ScorePut(score, d, a, rk) ==
    [key \in DOMAIN score \cup {d} |->
        IF key = d THEN FracAdd(ScoreGet(score, d), <<1, a + rk>>) ELSE score[key]]

KeysPutMutant(keys, d) ==
    IF \E j \in 1..Len(keys) : keys[j] = d THEN keys ELSE <<d>> \o keys
\* the keys of the dict in insertion order after doc.id is assigned
KeysPut(keys, d) ==
    IF \E j \in 1..Len(keys) : keys[j] = d THEN keys ELSE Append(keys, d)

ComesFirstMutant(x, y) == FracLess(x, y)
\* sorted(..., reverse=True): a key with score x goes before a key with score y
ComesFirst(x, y) == FracLess(y, x)

\* the sequence without its j-th element
RemoveAt(keys, j) == SubSeq(keys, 1, j - 1) \o SubSeq(keys, j + 1, Len(keys))

RECURSIVE Sorted(_, _)
\* sorted(rrf_score, key=rrf_score.get, reverse=True): the sort is stable, keys
\* of equal score stay in dict order
Sorted(keys, score) ==
    IF Len(keys) = 0 THEN <<>>
    ELSE LET first == CHOOSE j \in 1..Len(keys) :
                        /\ \A k \in 1..Len(keys) : ~ComesFirst(score[keys[k]], score[keys[j]])
                        /\ \A k \in 1..(j - 1) : ComesFirst(score[keys[k]], score[keys[j]])
                                                 \/ ComesFirst(score[keys[j]], score[keys[k]])
         IN <<keys[first]>> \o Sorted(RemoveAt(keys, first), score)

\* l[:n]
Take(l, n) == SubSeq(l, 1, IF Len(l) < n THEN Len(l) ELSE n)

\* hybrid_search(query, limit, alpha): the two queries have answered
HybridSearch(v, k, a, l) ==
    /\ rrf_pc = "idle"
    /\ vector_results' = v
    /\ keyword_results' = k
    /\ alpha' = a
    /\ limit' = l
    /\ rrf_score' = [key \in {} |-> Zero]
    /\ rrf_keys' = <<>>
    /\ rank' = 0
    /\ sorted_ids' = <<>>
    /\ final_docs' = <<>>
    /\ rrf_pc' = "vector"
    /\ UNCHANGED <<ingestVars, embedVars, kwVars, ragVars, raceVars, lookupVars,
                   restartVars, threadVars, workerVars,
                   chunkVars,
                   repairVars,
                   daoVars,
                   loadVars>>

\* one iteration of: for rank, doc in enumerate(vector_results)
VectorRank ==
    /\ rrf_pc = "vector"
    /\ rank < Len(vector_results)
    /\ rrf_score' = ScorePut(rrf_score, vector_results[rank + 1], alpha, RankOf(rank + 1))
    /\ rrf_keys' = KeysPut(rrf_keys, vector_results[rank + 1])
    /\ rank' = rank + 1
    /\ UNCHANGED <<rrf_pc, vector_results, keyword_results, alpha, limit, sorted_ids,
                   final_docs>>
    /\ UNCHANGED <<ingestVars, embedVars, kwVars, ragVars, raceVars, lookupVars,
                   restartVars, threadVars, workerVars,
                   chunkVars,
                   repairVars,
                   daoVars,
                   loadVars>>

\* the vector loop is over
VectorDone ==
    /\ rrf_pc = "vector"
    /\ rank >= Len(vector_results)
    /\ rank' = 0
    /\ rrf_pc' = "keyword"
    /\ UNCHANGED <<vector_results, keyword_results, alpha, limit, rrf_score, rrf_keys,
                   sorted_ids, final_docs>>
    /\ UNCHANGED <<ingestVars, embedVars, kwVars, ragVars, raceVars, lookupVars,
                   restartVars, threadVars, workerVars,
                   chunkVars,
                   repairVars,
                   daoVars,
                   loadVars>>

\* one iteration of: for rank, doc in enumerate(keyword_results)
KeywordRank ==
    /\ rrf_pc = "keyword"
    /\ rank < Len(keyword_results)
    /\ rrf_score' = ScorePut(rrf_score, keyword_results[rank + 1], alpha, RankOf(rank + 1))
    /\ rrf_keys' = KeysPut(rrf_keys, keyword_results[rank + 1])
    /\ rank' = rank + 1
    /\ UNCHANGED <<rrf_pc, vector_results, keyword_results, alpha, limit, sorted_ids,
                   final_docs>>
    /\ UNCHANGED <<ingestVars, embedVars, kwVars, ragVars, raceVars, lookupVars,
                   restartVars, threadVars, workerVars,
                   chunkVars,
                   repairVars,
                   daoVars,
                   loadVars>>

\* the keyword loop is over: sorted_ids = sorted(...)[:limit]
SortIds ==
    /\ rrf_pc = "keyword"
    /\ rank >= Len(keyword_results)
    /\ sorted_ids' = Take(Sorted(rrf_keys, rrf_score), limit)
    /\ rank' = 0
    /\ rrf_pc' = "fetch"
    /\ UNCHANGED <<vector_results, keyword_results, alpha, limit, rrf_score, rrf_keys,
                   final_docs>>
    /\ UNCHANGED <<ingestVars, embedVars, kwVars, ragVars, raceVars, lookupVars,
                   restartVars, threadVars, workerVars,
                   chunkVars,
                   repairVars,
                   daoVars,
                   loadVars>>

\* lookup = {d.id: d for d in vector_results + keyword_results}; the rows of
\* sorted_ids that lookup holds, in that order
FetchFinal ==
    /\ rrf_pc = "fetch"
    /\ LET lookup == {vector_results[j] : j \in 1..Len(vector_results)}
                     \cup {keyword_results[j] : j \in 1..Len(keyword_results)}
       IN final_docs' = SelectSeq(sorted_ids, LAMBDA d : d \in lookup)
    /\ rrf_pc' = "done"
    /\ UNCHANGED <<vector_results, keyword_results, alpha, limit, rank, rrf_score,
                   rrf_keys, sorted_ids>>
    /\ UNCHANGED <<ingestVars, embedVars, kwVars, ragVars, raceVars, lookupVars,
                   restartVars, threadVars, workerVars,
                   chunkVars,
                   repairVars,
                   daoVars,
                   loadVars>>

RrfInit ==
    /\ rrf_pc = "idle"
    /\ vector_results = <<>>
    /\ keyword_results = <<>>
    /\ alpha = 60
    /\ limit = 5
    /\ rank = 0
    /\ rrf_score = [key \in {} |-> Zero]
    /\ rrf_keys = <<>>
    /\ sorted_ids = <<>>
    /\ final_docs = <<>>

RrfNext ==
    \/ /\ rrf_pc = "idle"
       /\ \E v \in Rankings, k \in Rankings, a \in Alphas, l \in Limits :
            HybridSearch(v, k, a, l)
    \/ VectorRank
    \/ VectorDone
    \/ KeywordRank
    \/ SortIds
    \/ FetchFinal

\* =====================================================================
\* rag/rag_db.py: DatabaseRAGPipeline.answer_question
\* =====================================================================
NO_QUESTION == "Please provide a non-empty question."
NOTHING_FOUND == "I could not find any relevant information in the knowledge base."

\* the questions asked: empty, whitespace only, and a word after a space
Questions == {<<>>, <<" ">>, <<"\n", " ">>, <<" ", "q">>}

\* a Document of the retriever: the metadata entries the code reads (None
\* where the key is absent): one with id, one with chunk_id only, one with
\* neither
RetrievedDocs == {[id |-> 1, chunk_id |-> None, document_id |-> 1],
                  [id |-> None, chunk_id |-> 3, document_id |-> None],
                  [id |-> None, chunk_id |-> None, document_id |-> 1]}

\* what retriever.invoke(question) can return
DocLists == UNION {[1..n -> RetrievedDocs] : n \in 0..MaxDocs}

NoDocsMutant(ds) == FALSE
\* _retrieve_chunks: if not docs (and answer_question: if not chunks; results
\* holds one row per Document)
NoDocs(ds) == Len(ds) = 0

IsBlankMutant(q) == q = <<>>
\* not question.strip()
IsBlank(q) == Strip(q) = <<>>

\* chunk_id = metadata.get("id") or metadata.get("chunk_id")
ChunkIdOf(doc) == IF doc.id # None THEN doc.id ELSE doc.chunk_id

RECURSIVE ChunkIdsOf(_)
\* chunk_ids: int(chunk_id) of every doc whose chunk_id is not None
ChunkIdsOf(ds) ==
    IF Len(ds) = 0 THEN <<>>
    ELSE IF ChunkIdOf(Head(ds)) # None
         THEN <<ChunkIdOf(Head(ds))>> \o ChunkIdsOf(Tail(ds))
         ELSE ChunkIdsOf(Tail(ds))

\* the SELECTs on documents: one per doc whose document_id is not None
Lookups(ds) == Cardinality({j \in 1..Len(ds) : ds[j].document_id # None})

RECURSIVE format_sources(_, _)
\* _format_sources: the document_id of each chunk, first occurrence only
format_sources(ds, seen) ==
    IF Len(ds) = 0 THEN <<>>
    ELSE IF Head(ds).document_id \in seen THEN format_sources(Tail(ds), seen)
    ELSE <<Head(ds).document_id>>
         \o format_sources(Tail(ds), seen \cup {Head(ds).document_id})

\* the dict answer_question returns; raised marks an exception that leaves
\* answer_question instead
Answer(text, sources) ==
    [question |-> question, answer |-> text, sources |-> sources, raised |-> FALSE]
Raised == [question |-> question, answer |-> "", sources |-> <<>>, raised |-> TRUE]

\* answer_question(question)
Ask(q) ==
    /\ rag_pc \in {"idle", "returned"}
    /\ rag_n < MaxQuestions
    /\ rag_n' = rag_n + 1
    /\ question' = q
    /\ docs' = <<>>
    /\ store_access' = 0
    /\ provider_calls' = 0
    /\ llm_calls' = 0
    /\ rag_result' = [question |-> q, answer |-> "", sources |-> <<>>, raised |-> FALSE]
    /\ rag_pc' = "guard"
    /\ UNCHANGED retrieval_logs
    /\ UNCHANGED <<ingestVars, embedVars, kwVars, rrfVars, raceVars, lookupVars,
                   restartVars, threadVars, workerVars,
                   chunkVars,
                   repairVars,
                   daoVars,
                   loadVars>>

\* if not question.strip(): return the no-question dict
Guard ==
    /\ rag_pc = "guard"
    /\ IF IsBlank(question)
       THEN rag_result' = Answer(NO_QUESTION, <<>>) /\ rag_pc' = "returned"
       ELSE rag_result' = rag_result /\ rag_pc' = "retrieve"
    /\ UNCHANGED <<question, docs, retrieval_logs, store_access, provider_calls,
                   llm_calls, rag_n>>
    /\ UNCHANGED <<ingestVars, embedVars, kwVars, rrfVars, raceVars, lookupVars,
                   restartVars, threadVars, workerVars,
                   chunkVars,
                   repairVars,
                   daoVars,
                   loadVars>>

\* docs = self.retriever.invoke(question): the question is embedded and the
\* store searched; if not docs: return [], and answer_question returns the
\* nothing-found dict
Retrieve(ds) ==
    /\ rag_pc = "retrieve"
    /\ docs' = ds
    /\ provider_calls' = provider_calls + 1
    /\ store_access' = store_access + 1
    /\ IF NoDocs(ds)
       THEN rag_result' = Answer(NOTHING_FOUND, <<>>) /\ rag_pc' = "returned"
       ELSE rag_result' = rag_result /\ rag_pc' = "log"
    /\ UNCHANGED <<question, retrieval_logs, llm_calls, rag_n>>
    /\ UNCHANGED <<ingestVars, embedVars, kwVars, rrfVars, raceVars, lookupVars,
                   restartVars, threadVars, workerVars,
                   chunkVars,
                   repairVars,
                   daoVars,
                   loadVars>>

\* retriever.invoke raises: the embedding provider (at_provider) or the store
\* cannot be reached; nothing catches it
RetrieveRaises(at_provider) ==
    /\ rag_pc = "retrieve"
    /\ provider_calls' = provider_calls + 1
    /\ store_access' = store_access + (IF at_provider THEN 0 ELSE 1)
    /\ rag_result' = Raised
    /\ rag_pc' = "returned"
    /\ UNCHANGED <<question, docs, retrieval_logs, llm_calls, rag_n>>
    /\ UNCHANGED <<ingestVars, embedVars, kwVars, rrfVars, raceVars, lookupVars,
                   restartVars, threadVars, workerVars,
                   chunkVars,
                   repairVars,
                   daoVars,
                   loadVars>>

\* with self.engine.begin(): the rows are built, and if chunk_ids is not empty
\* one row is inserted into retrieval_logs
LogRetrieval ==
    /\ rag_pc = "log"
    /\ LET chunk_ids == ChunkIdsOf(docs)
       IN IF Len(chunk_ids) > 0
          THEN /\ retrieval_logs' = Append(retrieval_logs,
                                           [query |-> question,
                                            retrieved_chunk_ids |-> chunk_ids])
               /\ store_access' = store_access + Lookups(docs) + 1
          ELSE /\ retrieval_logs' = retrieval_logs
               /\ store_access' = store_access + Lookups(docs)
    /\ rag_pc' = "llm"
    /\ UNCHANGED <<question, docs, rag_result, provider_calls, llm_calls, rag_n>>
    /\ UNCHANGED <<ingestVars, embedVars, kwVars, rrfVars, raceVars, lookupVars,
                   restartVars, threadVars, workerVars,
                   chunkVars,
                   repairVars,
                   daoVars,
                   loadVars>>

\* a statement of the with block raises: the transaction is rolled back and
\* the exception leaves answer_question
LogRaises ==
    /\ rag_pc = "log"
    /\ store_access' = store_access + 1
    /\ rag_result' = Raised
    /\ rag_pc' = "returned"
    /\ UNCHANGED <<question, docs, retrieval_logs, provider_calls, llm_calls, rag_n>>
    /\ UNCHANGED <<ingestVars, embedVars, kwVars, rrfVars, raceVars, lookupVars,
                   restartVars, threadVars, workerVars,
                   chunkVars,
                   repairVars,
                   daoVars,
                   loadVars>>

\* llm_response = self.llm.invoke(prompt); the dict with the answer and the
\* sources is returned, or the exception of invoke leaves answer_question
Llm(answers) ==
    /\ rag_pc = "llm"
    /\ provider_calls' = provider_calls + 1
    /\ llm_calls' = llm_calls + 1
    /\ rag_result' = IF answers THEN Answer("answer", format_sources(docs, {})) ELSE Raised
    /\ rag_pc' = "returned"
    /\ UNCHANGED <<question, docs, retrieval_logs, store_access, rag_n>>
    /\ UNCHANGED <<ingestVars, embedVars, kwVars, rrfVars, raceVars, lookupVars,
                   restartVars, threadVars, workerVars,
                   chunkVars,
                   repairVars,
                   daoVars,
                   loadVars>>

RagInit ==
    /\ rag_pc = "idle"
    /\ question = <<>>
    /\ docs = <<>>
    /\ retrieval_logs = <<>>
    /\ rag_result = [question |-> <<>>, answer |-> "", sources |-> <<>>, raised |-> FALSE]
    /\ store_access = 0
    /\ provider_calls = 0
    /\ llm_calls = 0
    /\ rag_n = 0

RagNext ==
    \/ \E q \in Questions : Ask(q)
    \/ Guard
    \/ /\ rag_pc = "retrieve"
       /\ \E ds \in DocLists : Retrieve(ds)
    \/ \E at_provider \in BOOLEAN : RetrieveRaises(at_provider)
    \/ LogRetrieval
    \/ LogRaises
    \/ \E answers \in BOOLEAN : Llm(answers)

\* =====================================================================
\* Specifications: one per part, the other parts stay idle
\* =====================================================================
\* =====================================================================
\* ingestion/companies/data_ingestion.py: create_sentence_chunks
\* =====================================================================
\* sentences_per_chunk=3
SENTENCES_PER_CHUNK == 3
\* len(chunk.strip()) > 50
MIN_CHUNK_CHARS == 50

\* a sentence of n letters c
Letters(n, c) == [j \in 1..n |-> c]

\* the sentences of the lists: as split_into_sentences gives them, trimmed and
\* not empty. Three of 16 letters joined by spaces have 50 characters.
Sentences == {Letters(10, "a"), Letters(16, "b"), Letters(17, "c"),
              Letters(MIN_CHUNK_CHARS, "d"), Letters(MIN_CHUNK_CHARS + 1, "e")}

\* the lists create_sentence_chunks is called with
SentenceLists == UNION {[1..n -> Sentences] : n \in 0..MaxSentences}

RECURSIVE JoinWith(_, _)
\* sep.join(parts)
JoinWith(parts, sep) ==
    IF Len(parts) = 0 THEN <<>>
    ELSE IF Len(parts) = 1 THEN parts[1]
    ELSE parts[1] \o sep \o JoinWith(Tail(parts), sep)

\* l[a:b] with 0-based a and b
Slice(l, a, b) == SubSeq(l, a + 1, IF b < Len(l) THEN b ELSE Len(l))

\* if len(chunk.strip()) > 50
LongEnough(chunk) == Len(Strip(chunk)) > MIN_CHUNK_CHARS

\* create_sentence_chunks(sentences): chunks = []
CsCall(sentences) ==
    /\ cs_pc = "idle"
    /\ cs_sentences' = sentences
    /\ cs_i' = 0
    /\ cs_chunks' = <<>>
    /\ cs_groups' = <<>>
    /\ cs_pc' = "loop"
    /\ UNCHANGED <<ingestVars, raceVars, lookupVars, restartVars, embedVars, kwVars,
                   rrfVars, ragVars, threadVars, workerVars,
                   repairVars,
                   daoVars,
                   loadVars>>

\* one iteration of: for i in range(0, len(sentences), sentences_per_chunk)
CsGroup ==
    /\ cs_pc = "loop"
    /\ cs_i < Len(cs_sentences)
    /\ LET chunk == JoinWith(Slice(cs_sentences, cs_i, cs_i + SENTENCES_PER_CHUNK), <<" ">>)
       IN /\ cs_chunks' = IF LongEnough(chunk) THEN Append(cs_chunks, Strip(chunk))
                          ELSE cs_chunks
          /\ cs_groups' = Append(cs_groups, [first |-> cs_i + 1, kept |-> LongEnough(chunk)])
    /\ cs_i' = cs_i + SENTENCES_PER_CHUNK
    /\ UNCHANGED <<cs_pc, cs_sentences>>
    /\ UNCHANGED <<ingestVars, raceVars, lookupVars, restartVars, embedVars, kwVars,
                   rrfVars, ragVars, threadVars, workerVars,
                   repairVars,
                   daoVars,
                   loadVars>>

\* return chunks
CsReturn ==
    /\ cs_pc = "loop"
    /\ cs_i >= Len(cs_sentences)
    /\ cs_pc' = "returned"
    /\ UNCHANGED <<cs_sentences, cs_i, cs_chunks, cs_groups>>
    /\ UNCHANGED <<ingestVars, raceVars, lookupVars, restartVars, embedVars, kwVars,
                   rrfVars, ragVars, threadVars, workerVars,
                   repairVars,
                   daoVars,
                   loadVars>>

ChunkInit ==
    /\ cs_pc = "idle"
    /\ cs_sentences = <<>>
    /\ cs_i = 0
    /\ cs_chunks = <<>>
    /\ cs_groups = <<>>

ChunkNext ==
    \/ \E sentences \in SentenceLists : CsCall(sentences)
    \/ CsGroup
    \/ CsReturn

\* =====================================================================
\* ingestion/companies/data_ingestion.py: init_db, the repair of duplicate
\* file_path values and the unique index
\* =====================================================================
\* ids of the documents rows init_db can find
RepairIds == 1..MaxRepairDocs

\* file_path values of those rows: NULL and two paths
RepairPaths == {"NULL", "a.pdf", "b.pdf"}

\* the contents documents can have when init_db starts: a row for some ids
\* (id is the primary key)
RepairDocuments ==
    UNION {{{[id |-> d, file_path |-> f[d]] : d \in ids} : f \in [ids -> RepairPaths]} :
               ids \in SUBSET RepairIds}

\* the contents doc_chunk can have with these documents: every document has
\* no chunk row or one (document_id is a foreign key)
RepairChunks(rows) == SUBSET {[document_id |-> r.id] : r \in rows}

\* the smallest element of a non-empty set of ids
MinId(ids) == CHOOSE d \in ids : \A e \in ids : d <= e

\* SELECT file_path, array_agg(id ORDER BY id) ... WHERE file_path IS NOT NULL
\* GROUP BY file_path HAVING COUNT(*) > 1: one record per duplicated path
DuplicateGroups(rows) ==
    {[file_path |-> p, doc_ids |-> {r.id : r \in {x \in rows : x.file_path = p}}] :
        p \in {r.file_path : r \in {x \in rows : x.file_path # "NULL"
                   /\ Cardinality({y \in rows : y.file_path = x.file_path}) > 1}}}

KeepIdMutant(doc_ids) == CHOOSE d \in doc_ids : \A e \in doc_ids : d >= e
\* keep_id = doc_ids[0], doc_ids being ordered by id
KeepId(doc_ids) == MinId(doc_ids)

\* delete_ids = doc_ids[1:]
DeleteIds(doc_ids) == doc_ids \ {KeepId(doc_ids)}

\* init_db(): CREATE TABLE IF NOT EXISTS leaves the tables as they are; the
\* tables hold what earlier processes left in them
InitDbStart(rows, chunk_rows) ==
    /\ rp_pc = "idle"
    /\ rp_documents' = rows
    /\ rp_chunks' = chunk_rows
    /\ rp_before' = [documents |-> rows, chunks |-> chunk_rows]
    /\ rp_duplicates' = {}
    /\ rp_index' = FALSE
    /\ rp_pc' = "fetch"
    /\ UNCHANGED <<ingestVars, raceVars, lookupVars, restartVars, embedVars, kwVars,
                   rrfVars, ragVars, threadVars, workerVars, chunkVars,
                   daoVars,
                   loadVars>>

\* duplicates = await conn.fetch(duplicate_check); async with conn.transaction()
FetchDuplicates ==
    /\ rp_pc = "fetch"
    /\ rp_duplicates' = DuplicateGroups(rp_documents)
    /\ rp_pc' = IF DuplicateGroups(rp_documents) = {} THEN "index" ELSE "clean"
    /\ UNCHANGED <<rp_documents, rp_chunks, rp_before, rp_index>>
    /\ UNCHANGED <<ingestVars, raceVars, lookupVars, restartVars, embedVars, kwVars,
                   rrfVars, ragVars, threadVars, workerVars, chunkVars,
                   daoVars,
                   loadVars>>

\* one iteration of: for dup in duplicates (the two DELETE statements)
CleanDuplicate(dup) ==
    /\ rp_pc = "clean"
    /\ dup \in rp_duplicates
    /\ rp_chunks' = {c \in rp_chunks : c.document_id \notin DeleteIds(dup.doc_ids)}
    /\ rp_documents' = {r \in rp_documents : r.id \notin DeleteIds(dup.doc_ids)}
    /\ rp_duplicates' = rp_duplicates \ {dup}
    /\ UNCHANGED <<rp_pc, rp_before, rp_index>>
    /\ UNCHANGED <<ingestVars, raceVars, lookupVars, restartVars, embedVars, kwVars,
                   rrfVars, ragVars, threadVars, workerVars, chunkVars,
                   daoVars,
                   loadVars>>

\* a DELETE raises: the transaction is rolled back and init_db ends with the
\* exception
CleanRaises ==
    /\ rp_pc = "clean"
    /\ rp_duplicates # {}
    /\ rp_documents' = rp_before.documents
    /\ rp_chunks' = rp_before.chunks
    /\ rp_pc' = "raised"
    /\ UNCHANGED <<rp_before, rp_duplicates, rp_index>>
    /\ UNCHANGED <<ingestVars, raceVars, lookupVars, restartVars, embedVars, kwVars,
                   rrfVars, ragVars, threadVars, workerVars, chunkVars,
                   daoVars,
                   loadVars>>

\* the loop is over: the transaction commits
CommitCleanup ==
    /\ rp_pc = "clean"
    /\ rp_duplicates = {}
    /\ rp_pc' = "index"
    /\ UNCHANGED <<rp_documents, rp_chunks, rp_before, rp_duplicates, rp_index>>
    /\ UNCHANGED <<ingestVars, raceVars, lookupVars, restartVars, embedVars, kwVars,
                   rrfVars, ragVars, threadVars, workerVars, chunkVars,
                   daoVars,
                   loadVars>>

\* CREATE UNIQUE INDEX IF NOT EXISTS idx_documents_file_path; conn.close().
\* created is FALSE where the statement raises, which the except block prints
CreateIndex(created) ==
    /\ rp_pc = "index"
    /\ rp_index' = created
    /\ rp_pc' = "done"
    /\ UNCHANGED <<rp_documents, rp_chunks, rp_before, rp_duplicates>>
    /\ UNCHANGED <<ingestVars, raceVars, lookupVars, restartVars, embedVars, kwVars,
                   rrfVars, ragVars, threadVars, workerVars, chunkVars,
                   daoVars,
                   loadVars>>

RepairInit ==
    /\ rp_pc = "idle"
    /\ rp_documents = {}
    /\ rp_chunks = {}
    /\ rp_before = [documents |-> {}, chunks |-> {}]
    /\ rp_duplicates = {}
    /\ rp_index = FALSE

RepairNext ==
    \/ \E rows \in RepairDocuments : \E chunk_rows \in RepairChunks(rows) :
           InitDbStart(rows, chunk_rows)
    \/ FetchDuplicates
    \/ \E dup \in rp_duplicates : CleanDuplicate(dup)
    \/ CleanRaises
    \/ CommitCleanup
    \/ \E created \in BOOLEAN : CreateIndex(created)

\* =====================================================================
\* database_manager/dao.py: DatabaseManager and save_document_and_nodes
\* =====================================================================
\* document['filepath'] of the documents saved: no path and two paths
SavePaths == {"NULL", "p1", "p2"}

\* a session that holds nothing
NoSession == [open |-> FALSE, document |-> "none", nodes |-> 0]

\* idx_documents_file_path (models.py): would the INSERT of a row with this
\* file_path be rejected
FilePathTaken(rows, path) == path # "NULL" /\ \E r \in rows : r.file_path = path

\* session.commit(): the rows the session holds are in the tables
Committed(db, session, id) ==
    [documents |-> db.documents \cup {[id |-> id, file_path |-> session.document]},
     nodes |-> db.nodes \cup {[document_id |-> id, no |-> k] : k \in 1..session.nodes}]

ExcTypeIsNoneMutant(exc) == TRUE
\* __exit__: if exc_type is None
ExcTypeIsNone(exc) == exc = ""

\* save_document_and_nodes(document, nodes): __enter__ opens a session
SaveCall(path, n) ==
    /\ sv_pc \in {"idle", "returned"}
    /\ sv_calls < MaxSaves
    /\ sv_calls' = sv_calls + 1
    /\ sv_path' = path
    /\ sv_nodes' = n
    /\ sv_session' = [open |-> TRUE, document |-> "none", nodes |-> 0]
    /\ sv_before' = sv_db
    /\ sv_exc' = ""
    /\ sv_pc' = "document"
    /\ UNCHANGED <<sv_db, sv_seq>>
    /\ UNCHANGED <<ingestVars, raceVars, lookupVars, restartVars, embedVars, kwVars,
                   rrfVars, ragVars, threadVars, workerVars, chunkVars, repairVars,
                   loadVars>>

\* db.add_to_session(document_obj, flush=True): the INSERT is sent inside the
\* session's transaction and document_obj.id is assigned; the unique index
\* rejects a file_path that a committed row has
AddDocument ==
    /\ sv_pc = "document"
    /\ IF FilePathTaken(sv_db.documents, sv_path)
       THEN /\ sv_exc' = "IntegrityError"
            /\ sv_pc' = "exit"
            /\ UNCHANGED <<sv_session, sv_seq>>
       ELSE /\ sv_session' = [sv_session EXCEPT !.document = sv_path]
            /\ sv_seq' = sv_seq + 1
            /\ sv_pc' = "nodes"
            /\ UNCHANGED sv_exc
    /\ UNCHANGED <<sv_calls, sv_path, sv_nodes, sv_db, sv_before>>
    /\ UNCHANGED <<ingestVars, raceVars, lookupVars, restartVars, embedVars, kwVars,
                   rrfVars, ragVars, threadVars, workerVars, chunkVars, repairVars,
                   loadVars>>

\* Document(...) raises on a missing key of the dict, or the flush raises for
\* another reason than the index
AddDocumentRaises ==
    /\ sv_pc = "document"
    /\ sv_exc' = "Exception"
    /\ sv_pc' = "exit"
    /\ UNCHANGED <<sv_calls, sv_path, sv_nodes, sv_session, sv_db, sv_before, sv_seq>>
    /\ UNCHANGED <<ingestVars, raceVars, lookupVars, restartVars, embedVars, kwVars,
                   rrfVars, ragVars, threadVars, workerVars, chunkVars, repairVars,
                   loadVars>>

\* one iteration of: for node in nodes: db.add_to_session(DocChunk(...))
AddNode ==
    /\ sv_pc = "nodes"
    /\ sv_session.nodes < sv_nodes
    /\ sv_session' = [sv_session EXCEPT !.nodes = @ + 1]
    /\ UNCHANGED <<sv_pc, sv_calls, sv_path, sv_nodes, sv_db, sv_before, sv_exc, sv_seq>>
    /\ UNCHANGED <<ingestVars, raceVars, lookupVars, restartVars, embedVars, kwVars,
                   rrfVars, ragVars, threadVars, workerVars, chunkVars, repairVars,
                   loadVars>>

\* DocChunk(document_id=..., **node) raises (a key that is no column)
AddNodeRaises ==
    /\ sv_pc = "nodes"
    /\ sv_session.nodes < sv_nodes
    /\ sv_exc' = "TypeError"
    /\ sv_pc' = "exit"
    /\ UNCHANGED <<sv_calls, sv_path, sv_nodes, sv_session, sv_db, sv_before, sv_seq>>
    /\ UNCHANGED <<ingestVars, raceVars, lookupVars, restartVars, embedVars, kwVars,
                   rrfVars, ragVars, threadVars, workerVars, chunkVars, repairVars,
                   loadVars>>

\* the loop is over: the with block is left without exception
LeaveBlock ==
    /\ sv_pc = "nodes"
    /\ sv_session.nodes >= sv_nodes
    /\ sv_pc' = "exit"
    /\ UNCHANGED <<sv_calls, sv_path, sv_nodes, sv_session, sv_db, sv_before, sv_exc,
                   sv_seq>>
    /\ UNCHANGED <<ingestVars, raceVars, lookupVars, restartVars, embedVars, kwVars,
                   rrfVars, ragVars, threadVars, workerVars, chunkVars, repairVars,
                   loadVars>>

\* __exit__: commit if exc_type is None, else rollback; finally close. It
\* returns None, so the exception of the block goes on to the caller. committed
\* is FALSE where session.commit() raises: the transaction is not committed and
\* that exception goes on to the caller after the close
DbExit(committed) ==
    /\ sv_pc = "exit"
    /\ IF ExcTypeIsNone(sv_exc)
       THEN IF committed /\ sv_session.document # "none"
            THEN sv_db' = Committed(sv_db, sv_session, sv_seq) /\ sv_exc' = sv_exc
            ELSE IF committed
            THEN sv_db' = sv_db /\ sv_exc' = sv_exc
            ELSE sv_db' = sv_db /\ sv_exc' = "CommitError"
       ELSE committed /\ sv_db' = sv_db /\ sv_exc' = sv_exc
    /\ sv_session' = NoSession
    /\ sv_pc' = "returned"
    /\ UNCHANGED <<sv_calls, sv_path, sv_nodes, sv_before, sv_seq>>
    /\ UNCHANGED <<ingestVars, raceVars, lookupVars, restartVars, embedVars, kwVars,
                   rrfVars, ragVars, threadVars, workerVars, chunkVars, repairVars,
                   loadVars>>

DaoInit ==
    /\ sv_pc = "idle"
    /\ sv_calls = 0
    /\ sv_path = "NULL"
    /\ sv_nodes = 0
    /\ sv_session = NoSession
    /\ sv_db = [documents |-> {}, nodes |-> {}]
    /\ sv_before = [documents |-> {}, nodes |-> {}]
    /\ sv_exc = ""
    /\ sv_seq = 0

DaoNext ==
    \/ \E path \in SavePaths, n \in 0..MaxNodes : SaveCall(path, n)
    \/ AddDocument
    \/ AddDocumentRaises
    \/ AddNode
    \/ AddNodeRaises
    \/ LeaveBlock
    \/ \E committed \in BOOLEAN : DbExit(committed)

\* =====================================================================
\* ingestion_pipeline.py: load_documents_in_database
\* =====================================================================
\* document['fileurl'] and document['filepath'] of the records
FileUrls == {"u1", "u2"}
FilePaths == {"p1", "p2"}

\* what the text of a record's file is like: usable, empty (unreadable), longer
\* than 8192 tokens, or a text the model finds no node in
TextKinds == {"ok", "unreadable", "long", "nonodes"}

\* the lines of the JSON file
LoadRecords == [fileurl : FileUrls, filepath : FilePaths, text : TextKinds]

\* the files load_documents_in_database is called with
LoadFiles == UNION {[1..n -> LoadRecords] : n \in 1..MaxLoadRecords}

\* select(Document.file_url): the set of the stored file_url values
StoredUrls(rows) == {r.file_url : r \in rows}

\* load_documents_in_database(jsonpath): all_existing_docs is read once
LdStart(records) ==
    /\ ld_pc \in {"idle", "returned", "raised"}
    /\ ld_runs < MaxLoadRuns
    /\ ld_runs' = ld_runs + 1
    /\ ld_existing' = StoredUrls(ld_rows)
    /\ ld_records' = records
    /\ ld_idx' = 1
    /\ ld_exc' = ""
    /\ ld_pc' = "loop"
    /\ UNCHANGED ld_rows
    /\ UNCHANGED <<ingestVars, raceVars, lookupVars, restartVars, embedVars, kwVars,
                   rrfVars, ragVars, threadVars, workerVars, chunkVars, repairVars,
                   daoVars>>

\* if document['fileurl'] in all_existing_docs: continue
LdSkipExisting ==
    /\ ld_pc = "loop"
    /\ ld_idx <= Len(ld_records)
    /\ ld_records[ld_idx].fileurl \in ld_existing
    /\ ld_idx' = ld_idx + 1
    /\ UNCHANGED <<ld_pc, ld_runs, ld_existing, ld_records, ld_rows, ld_exc>>
    /\ UNCHANGED <<ingestVars, raceVars, lookupVars, restartVars, embedVars, kwVars,
                   rrfVars, ragVars, threadVars, workerVars, chunkVars, repairVars,
                   daoVars>>

\* no text, a text that trim() shortens, or no nodes: continue
LdSkipContent ==
    /\ ld_pc = "loop"
    /\ ld_idx <= Len(ld_records)
    /\ ld_records[ld_idx].fileurl \notin ld_existing
    /\ ld_records[ld_idx].text # "ok"
    /\ ld_idx' = ld_idx + 1
    /\ UNCHANGED <<ld_pc, ld_runs, ld_existing, ld_records, ld_rows, ld_exc>>
    /\ UNCHANGED <<ingestVars, raceVars, lookupVars, restartVars, embedVars, kwVars,
                   rrfVars, ragVars, threadVars, workerVars, chunkVars, repairVars,
                   daoVars>>

\* dao.save_document_and_nodes(document, nodes): the row is committed, or the
\* flush is rejected by idx_documents_file_path and the IntegrityError leaves
\* save_document_and_nodes and, uncaught, load_documents_in_database
LdSave ==
    /\ ld_pc = "loop"
    /\ ld_idx <= Len(ld_records)
    /\ ld_records[ld_idx].fileurl \notin ld_existing
    /\ ld_records[ld_idx].text = "ok"
    /\ IF FilePathTaken(ld_rows, ld_records[ld_idx].filepath)
       THEN /\ ld_exc' = "IntegrityError"
            /\ ld_pc' = "raised"
            /\ UNCHANGED <<ld_rows, ld_idx>>
       ELSE /\ ld_rows' = ld_rows \cup {[id |-> Cardinality(ld_rows) + 1,
                                         file_url |-> ld_records[ld_idx].fileurl,
                                         file_path |-> ld_records[ld_idx].filepath]}
            /\ ld_idx' = ld_idx + 1
            /\ UNCHANGED <<ld_pc, ld_exc>>
    /\ UNCHANGED <<ld_runs, ld_existing, ld_records>>
    /\ UNCHANGED <<ingestVars, raceVars, lookupVars, restartVars, embedVars, kwVars,
                   rrfVars, ragVars, threadVars, workerVars, chunkVars, repairVars,
                   daoVars>>

\* the for loop is over
LdReturn ==
    /\ ld_pc = "loop"
    /\ ld_idx > Len(ld_records)
    /\ ld_pc' = "returned"
    /\ UNCHANGED <<ld_runs, ld_existing, ld_records, ld_idx, ld_rows, ld_exc>>
    /\ UNCHANGED <<ingestVars, raceVars, lookupVars, restartVars, embedVars, kwVars,
                   rrfVars, ragVars, threadVars, workerVars, chunkVars, repairVars,
                   daoVars>>

LoadInit ==
    /\ ld_pc = "idle"
    /\ ld_runs = 0
    /\ ld_existing = {}
    /\ ld_records = <<>>
    /\ ld_idx = 1
    /\ ld_rows = {}
    /\ ld_exc = ""

LoadNext ==
    \/ \E records \in LoadFiles : LdStart(records)
    \/ LdSkipExisting
    \/ LdSkipContent
    \/ LdSave
    \/ LdReturn

Init == IngestInit /\ RaceInit /\ LookupInit /\ RestartInit /\ ThreadInit /\ WorkerInit
        /\ EmbedInit /\ KwInit /\ RrfInit /\ RagInit
        /\ ChunkInit
        /\ RepairInit
        /\ DaoInit
        /\ LoadInit

SpecIngest == Init /\ [][IngestNext]_vars
\* a call that is not killed goes on: every await of the loop body returns or
\* raises
SpecIngestLive == Init /\ [][LiveNext]_vars /\ WF_vars(RunStep)
SpecEmbed == Init /\ [][EmbedNext]_vars
SpecKw == Init /\ [][KwNext]_vars
SpecRRF == Init /\ [][RrfNext]_vars
SpecRAG == Init /\ [][RagNext]_vars
SpecRace == Init /\ [][RaceNext]_vars
SpecLookup == Init /\ [][LookupNext]_vars
SpecRestart == Init /\ [][RestartNext]_vars
SpecThreads == Init /\ [][ThreadNext]_vars
SpecWorkers == Init /\ [][WorkerNext]_vars
SpecChunk == Init /\ [][ChunkNext]_vars
SpecRepair == Init /\ [][RepairNext]_vars
SpecDao == Init /\ [][DaoNext]_vars
SpecLoad == Init /\ [][LoadNext]_vars

\* ------------------------------------------------- properties of ingest_json
\* positions of the documents rows with this file_path
DocsWithPath(p) == {k \in 1..Len(documents) : documents[k].file_path = p}

\* the doc_chunk rows of the documents with this file_path
ChunkRowsOfPath(p) ==
    IF DocsWithPath(p) = {} THEN <<>>
    ELSE SelectRows(doc_chunk, documents[CHOOSE k \in DocsWithPath(p) : TRUE].id)

\* how many records of this run were counted as `what`
Counted(what) == Cardinality({k \in 1..Len(outcomes) : outcomes[k] = what})

\* this step ends the handling of a record, which is counted as `what`
EndsRecord(what) == outcomes' = Append(outcomes, what)

\* C1 (dedup idempotence): once a file_path was counted processed it keeps
\* exactly one documents row and exactly the chunk rows written then; a later
\* record with that file_path (file on disk) is counted in skipped_duplicates
\* without any embedding call or keyword-extraction call and without a write.
C1_DedupIdempotence ==
    /\ [](\A p \in Paths : written[p] # <<>> =>
            /\ Cardinality(DocsWithPath(p)) = 1
            /\ ChunkRowsOfPath(p) = written[p])
    /\ [][(pc = "exists" /\ written[record] # <<>> /\ pc' # "crashed") =>
            /\ EndsRecord("dup")
            /\ stats'.skipped_duplicates = stats.skipped_duplicates + 1
            /\ embed_calls = 0
            /\ kw_calls = 0
            /\ documents' = documents
            /\ doc_chunk' = doc_chunk]_vars

\* a second run whose only record so far is b.pdf, processed by the first run
C1_Witness ==
    /\ runs = 2
    /\ outcomes = <<"dup">>
    /\ stats.skipped_duplicates = 1
    /\ written["b.pdf"] # <<>>
    /\ doc_chunk = written["b.pdf"]

\* the record being handled has a documents row and no doc_chunk row
NeedsRecovery == DocsWithPath(record) # {} /\ ChunkRowsOfPath(record) = <<>>

\* C2 (recovery completion): a record whose documents row exists with zero
\* chunk rows is handled under the existing id and no row is inserted for it;
\* unless this run raises for it, or its file has no text to chunk, all its
\* chunks are written under that id and it is counted processed; no file_path
\* ever has a second documents row.
C2_RecoveryCompletion ==
    /\ [](\A p \in Paths \ {""} : Cardinality(DocsWithPath(p)) <= 1)
    /\ [][(pc = "exists" /\ NeedsRecovery /\ pc' # "crashed") =>
            /\ pc' = "chunk"
            /\ document_id' \in {documents[k].id : k \in DocsWithPath(record)}
            /\ existing_doc_id' = document_id'
            /\ documents' = documents]_vars
    /\ [][(existing_doc_id # None /\ pc' = "loop") =>
            /\ documents' = documents
            /\ \/ EndsRecord("error")
               \/ ChunksOf(record) = 0 /\ EndsRecord("missing")
               \/ /\ ChunksOf(record) > 0
                  /\ EndsRecord("processed")
                  /\ stats'.processed = stats.processed + 1
                  /\ Len(SelectRows(doc_chunk', existing_doc_id)) = ChunksOf(record)]_vars

\* a second run has written all chunks of b.pdf under the id of the row an
\* earlier run left without chunks
C2_Witness ==
    /\ runs = 2
    /\ pc = "batch"
    /\ record = "b.pdf"
    /\ existing_doc_id # None
    /\ document_id = existing_doc_id
    /\ Len(documents) = 1
    /\ Len(SelectRows(doc_chunk, existing_doc_id)) = ChunksOf(record)

\* C3 (chunk ordinal contiguity): the doc_chunk rows of a document counted
\* processed with K chunks carry the chunk_index values 0..K-1, each once.
C3_OrdinalContiguity ==
    \A p \in Paths : written[p] # <<>> =>
        LET rows == ChunkRowsOfPath(p)
            K == ChunksOf(p)
        IN /\ Len(rows) = K
           /\ {rows[k].chunk_index : k \in 1..Len(rows)} = 0..(K - 1)

\* a processed document whose chunk count is above the batch size and not a
\* multiple of it
C3_Witness ==
    /\ written["b.pdf"] # <<>>
    /\ ChunksOf("b.pdf") > batch_size
    /\ ChunksOf("b.pdf") % batch_size # 0

\* the step that ends a record counts it as its file and the tables require
NormalOutcome ==
    /\ EndsRecord("processed") =>
          /\ FileOnDisk(record)
          /\ Len(SelectRows(doc_chunk', document_id)) = ChunksOf(record)
    /\ EndsRecord("dup") =>
          /\ ChunkRowsOfPath(record) # <<>>
          /\ doc_chunk' = doc_chunk
    /\ EndsRecord("missing") =>
          /\ record = "" \/ ~FileOnDisk(record) \/ ChunksOf(record) = 0
          /\ doc_chunk' = doc_chunk

\* C4 (batch partial-failure isolation): a run visits every record whatever
\* raised before it; each record that does not raise is counted processed or
\* skipped as its file and the tables require; at the end of the run errors is
\* the number of records that raised.
C4_PartialFailureIsolation ==
    /\ [](pc \in {"loop", "done"} => Len(outcomes) = idx - 1)
    /\ [](pc = "done" =>
            /\ Len(outcomes) = nrecords
            /\ stats.errors = Counted("error")
            /\ stats.processed = Counted("processed")
            /\ stats.skipped_duplicates = Counted("dup")
            /\ stats.skipped_missing = Counted("missing"))
    /\ [][NormalOutcome]_vars

\* three documents, the second raises: the first and the third are processed
C4_Witness ==
    /\ pc = "done"
    /\ outcomes = <<"processed", "error", "processed">>
    /\ stats.processed = 2
    /\ stats.errors = 1


\* ------------------------------------------- properties of get_embeddings
\* the returned calls whose text is t after trimming
CallsFor(key) == {n \in 1..Len(emb_done) : Strip(emb_done[n].text) = key}

\* the returned calls whose text is exactly t
CallsWith(t) == {n \in 1..Len(emb_done) : emb_done[n].text = t}

RECURSIVE Successes(_)
\* provider calls that answered, over a set of returned calls
Successes(calls) ==
    IF calls = {} THEN 0
    ELSE LET n == CHOOSE n \in calls : TRUE
         IN emb_done[n].ok + Successes(calls \ {n})

RECURSIVE External(_)
\* provider calls made, answered or not, over a set of returned calls
External(calls) ==
    IF calls = {} THEN 0
    ELSE LET n == CHOOSE n \in calls : TRUE
         IN emb_done[n].ok + emb_done[n].failed + External(calls \ {n})

C6_ExhaustionSurfacesFailure ==
    \A n \in 1..Len(emb_done) :
        emb_done[n].failed = OPENAI_RETRY =>
            emb_done[n].value.kind \notin {"None", "embedding"}

\* every attempt of a call raised and the call has returned
C6_Witness ==
    /\ emb_pc = "returned"
    /\ Len(emb_done) = 1
    /\ emb_done[1].text = <<"a">>
    /\ emb_done[1].failed = OPENAI_RETRY
    /\ sleeps = <<delay, delay, delay>>
    /\ emb_done[1].value = NoneValue

\* ------------------------------------- properties of extract_keywords_llm
\* a list of Python str
IsStrList(l) == \A j \in 1..Len(l) : l[j].t = "str"

\* C7: whatever llm.invoke does, extract_keywords_llm returns a dict with the
\* keys affected_sectors and named_companies, each a list of strings, and no
\* exception leaves it
C7_NeverRaises ==
    kw_pc = "returned" =>
        /\ ~kw_result.raised
        /\ DOMAIN kw_result.value = {"affected_sectors", "named_companies"}
        /\ IsStrList(kw_result.value.affected_sectors)
        /\ IsStrList(kw_result.value.named_companies)

\* the provider answered {"affected_sectors": 7}: the for loop over 7 raises,
\* and the fallback returns the quoted strings of the response
C7_Witness ==
    /\ kw_pc = "returned"
    /\ kw_resp = [kind |-> "str", content |-> Obj(<<Member(AFFECTED_SECTORS, SEVEN)>>)]
    /\ ~kw_result.raised
    /\ kw_result.value = Keywords(<<J("str", AFFECTED_SECTORS)>>, <<>>)

\* -------------------------------------------- properties of hybrid_search
InRanking(ranking, d) == \E j \in 1..Len(ranking) : ranking[j] = d
PositionIn(ranking, d) == CHOOSE j \in 1..Len(ranking) : ranking[j] = d

\* 1 / (alpha + 0-based rank of d) if d is in the ranking, else 0
BranchTerm(ranking, d) ==
    IF InRanking(ranking, d) THEN <<1, alpha + (PositionIn(ranking, d) - 1)>> ELSE Zero

WorseInOnlyBranch(b, c) ==
    \/ /\ InRanking(vector_results, c) /\ ~InRanking(keyword_results, c)
       /\ PositionIn(vector_results, c) > PositionIn(vector_results, b)
    \/ /\ InRanking(keyword_results, c) /\ ~InRanking(vector_results, c)
       /\ PositionIn(keyword_results, c) > PositionIn(keyword_results, b)

C10_BlankShortCircuit ==
    /\ []((rag_pc = "returned" /\ Strip(question) = <<>>) =>
            /\ rag_result = [question |-> question, answer |-> NO_QUESTION,
                             sources |-> <<>>, raised |-> FALSE]
            /\ store_access = 0
            /\ provider_calls = 0)
    /\ [][(rag_pc' # "idle" /\ Strip(question') = <<>>) =>
            /\ retrieval_logs' = retrieval_logs
            /\ rag_pc' \in {"guard", "returned"}]_vars

\* a whitespace question after a question that was answered and logged
C10_Witness ==
    /\ rag_pc = "returned"
    /\ rag_n = 2
    /\ question = <<"\n", " ">>
    /\ rag_result.answer = NO_QUESTION
    /\ Len(retrieval_logs) = 1
    /\ store_access = 0

\* C11: when the retriever returns no Document, the call returns the
\* nothing-found dict with no sources, retrieval_logs is left as it was, and
\* llm.invoke is not called (the only provider call is the retriever's
\* embedding of the question)
C11_NothingFoundShortCircuit ==
    /\ [][(rag_pc = "retrieve" /\ rag_pc' # "retrieve" /\ ~rag_result'.raised
            /\ Len(docs') = 0) =>
            /\ rag_pc' = "returned"
            /\ retrieval_logs' = retrieval_logs
            /\ llm_calls' = 0]_vars
    /\ []((rag_pc = "returned" /\ ~IsBlank(question) /\ ~rag_result.raised
            /\ Len(docs) = 0) =>
            /\ rag_result = [question |-> question, answer |-> NOTHING_FOUND,
                             sources |-> <<>>, raised |-> FALSE]
            /\ llm_calls = 0
            /\ provider_calls = 1)

\* a question that found nothing, after one that was answered and logged
C11_Witness ==
    /\ rag_pc = "returned"
    /\ rag_n = 2
    /\ question = <<" ", "q">>
    /\ docs = <<>>
    /\ rag_result.answer = NOTHING_FOUND
    /\ Len(retrieval_logs) = 1
    /\ llm_calls = 0
    /\ store_access = 1

\* the ids of the Documents a retrieval call returned
ReturnedChunkIds(ds) == [j \in 1..Len(ds) |-> ChunkIdOf(ds[j])]

\* C12: every retrieval call that completes with at least one Document
\* appends exactly one row to retrieval_logs, holding the question and the
\* ids of the returned chunks, and no step changes or removes an earlier row
C12_RetrievalLogging ==
    /\ [][(rag_pc = "log" /\ rag_pc' = "llm") =>
            retrieval_logs' = Append(retrieval_logs,
                                     [query |-> question,
                                      retrieved_chunk_ids |-> ReturnedChunkIds(docs)])]_vars
    /\ [][/\ Len(retrieval_logs') >= Len(retrieval_logs)
          /\ SubSeq(retrieval_logs', 1, Len(retrieval_logs)) = retrieval_logs]_vars

\* a question answered from one Document whose metadata carries no id: the
\* call completed and retrieval_logs is still empty
C12_Witness ==
    /\ rag_pc = "returned"
    /\ rag_n = 1
    /\ ~rag_result.raised
    /\ rag_result.answer = "answer"
    /\ docs = <<[id |-> None, chunk_id |-> None, document_id |-> 1]>>
    /\ retrieval_logs = <<>>

\* C16: a retrieval call that cannot reach the embedding provider or the
\* store returns a dict to its caller: no exception leaves answer_question
C16_RetrievalFailsClosed ==
    [][(rag_pc \in {"retrieve", "log"} /\ rag_pc' = "returned") =>
         ~rag_result'.raised]_vars

\* the embedding provider was not reached: the exception left answer_question
\* before the store was asked
C16_Witness ==
    /\ rag_pc = "returned"
    /\ rag_result.raised
    /\ provider_calls = 1
    /\ store_access = 0
    /\ llm_calls = 0

\* ------------------------------------ further properties of ingest_json
\* C13: after a run every document has none of its chunk rows or all of
\* them, whatever failed while its chunks were embedded and inserted
C13_AtomicChunkPersistence ==
    [](pc = "done" =>
         \A k \in 1..Len(documents) :
             Len(SelectRows(doc_chunk, documents[k].id))
                 \in {0, ChunksOf(documents[k].file_path)})

\* a finished run whose only record, b.pdf, was counted an error: the rows of
\* its first batch are in doc_chunk, the chunk of its second batch is not
C13_Witness ==
    /\ pc = "done"
    /\ runs = 1
    /\ outcomes = <<"error">>
    /\ Len(documents) = 1
    /\ documents[1].file_path = "b.pdf"
    /\ Len(SelectRows(doc_chunk, documents[1].id)) = DEFAULT_BATCH_SIZE
    /\ ChunksOf("b.pdf") = DEFAULT_BATCH_SIZE + 1

\* C14: a run whose INSERT of a document is rejected by the unique index on
\* file_path (another run inserted the path after this run's existence
\* checks) does not count the record in errors and goes on with its records
C14_ConflictIsNotAnError ==
    [][(pc = "insert" /\ UniqueViolation(record) /\ pc' # "insert") =>
         /\ stats'.errors = stats.errors
         /\ ~EndsRecord("error")
         /\ pc' \in {"loop", "chunk"}]_vars

\* a finished run of one record, a.pdf: the other process inserted the path
\* first, this run's INSERT was rejected and the record was counted an error
C14_Witness ==
    /\ pc = "done"
    /\ runs = 1
    /\ nrecords = 1
    /\ rejected = {"a.pdf"}
    /\ outcomes = <<"error">>
    /\ stats = [ZeroStats EXCEPT !.errors = 1]
    /\ Cardinality(DocsWithPath("a.pdf")) = 1

\* C15: every ingest_json call that is not killed finishes, whatever raised
\* for its records; at its end every record has been visited and counted
\* under exactly one of the four counters, and a record counted in errors is
\* followed by the next record
C15_BatchRunCompletes ==
    /\ \A r \in 1..MaxRuns : (runs = r) ~> (runs = r /\ pc = "done")
    /\ [](pc = "done" =>
            /\ idx = nrecords + 1
            /\ Len(outcomes) = nrecords
            /\ stats.processed = Counted("processed")
            /\ stats.skipped_duplicates = Counted("dup")
            /\ stats.skipped_missing = Counted("missing")
            /\ stats.errors = Counted("error")
            /\ stats.processed + stats.skipped_duplicates
                 + stats.skipped_missing + stats.errors = nrecords)
    /\ [][EndsRecord("error") => (pc' = "loop" /\ idx' = idx + 1)]_vars

\* a finished run of three records: the first two raised, the third was
\* processed
C15_Witness ==
    /\ pc = "done"
    /\ nrecords = 3
    /\ outcomes = <<"error", "error", "processed">>
    /\ stats = [processed |-> 1, skipped_duplicates |-> 0, skipped_missing |-> 0,
                errors |-> 2]

\* C18: a record without file_path, with a file_path that is not on disk, or
\* whose file cannot be read into chunks is counted in skipped_missing and
\* not in errors, has no documents row inserted for it and causes no keyword
\* or embedding call. (A step from "chunk" back to the loop is the end of a
\* record whose file gave process_pdf nothing to return.)
C18_MissingSourceIsSkip ==
    /\ [][(pc = "file" /\ (record = "" \/ ~FileOnDisk(record)) /\ pc' # "crashed") =>
            /\ EndsRecord("missing")
            /\ stats'.skipped_missing = stats.skipped_missing + 1
            /\ stats'.errors = stats.errors
            /\ documents' = documents
            /\ embed_calls = 0
            /\ kw_calls = 0]_vars
    /\ [][(pc = "chunk" /\ pc' = "loop") =>
            /\ EndsRecord("missing")
            /\ stats'.skipped_missing = stats.skipped_missing + 1
            /\ stats'.errors = stats.errors
            /\ DocsWithPath(record) = {}
            /\ embed_calls = 0
            /\ kw_calls = 0]_vars

\* a finished run of one record whose file is on disk and has no text:
\* process_pdf raised, the record was counted an error and its documents row
\* is in the table
C18_Witness ==
    /\ pc = "done"
    /\ runs = 1
    /\ outcomes = <<"error">>
    /\ stats.errors = 1
    /\ stats.skipped_missing = 0
    /\ Len(documents) = 1
    /\ documents[1].file_path = "e.pdf"

\* C19: a document for which process_pdf returns no chunk goes no further
\* than chunking: no keyword-extraction call, no embedding call and no
\* doc_chunk row for it; the record is counted in skipped_missing, and
\* neither in processed nor in errors
C19_EmptyChunksSkip ==
    /\ []((FileOnDisk(record) /\ ChunksOf(record) = 0) =>
            /\ pc \in {"file", "exists", "chunk"}
            /\ kw_calls = 0
            /\ embed_calls = 0)
    /\ [](\A k \in 1..Len(documents) :
            ChunksOf(documents[k].file_path) = 0 =>
                SelectRows(doc_chunk, documents[k].id) = <<>>)
    /\ [][(pc = "chunk" /\ ChunksOf(record) = 0 /\ pc' # "crashed"
           /\ ~EndsRecord("error")) =>
            /\ EndsRecord("missing")
            /\ stats'.skipped_missing = stats.skipped_missing + 1
            /\ stats'.processed = stats.processed
            /\ stats'.errors = stats.errors
            /\ doc_chunk' = doc_chunk]_vars

\* a finished run of one record, e.pdf: counted skipped, nothing in doc_chunk
C19_Witness ==
    /\ pc = "done"
    /\ runs = 1
    /\ outcomes = <<"missing">>
    /\ stats = [ZeroStats EXCEPT !.skipped_missing = 1]
    /\ Len(documents) = 1
    /\ documents[1].file_path = "e.pdf"
    /\ doc_chunk = <<>>

\* ------------------------------------ properties of check_document_exists
\* a path that is empty or only whitespace
BlankPath(p) == p \in {"", " "}

\* C20: check_document_exists returns the id of a row whose file_path equals
\* the argument if there is one, and None if there is none; for a path that
\* is empty or only whitespace it returns None whatever the table holds
C20_ExistsByPath ==
    [](lookup_pc = "returned" =>
         IF BlankPath(lookup_path) THEN lookup_result = None
         ELSE IF DocsWithPath(lookup_path) = {} THEN lookup_result = None
         ELSE lookup_result \in {documents[k].id : k \in DocsWithPath(lookup_path)})

\* the call with a single space returned the id of the row whose file_path
\* is a single space
C20_Witness ==
    /\ lookup_pc = "returned"
    /\ lookup_path = " "
    /\ lookup_result # None
    /\ lookup_result \in {documents[k].id : k \in DocsWithPath(" ")}

\* ---------------------------------- properties of the cache across restarts
\* C17: every entry of embedding_cache is in the cache after a restart of the
\* process, and a text whose key an earlier run cached needs no provider call
C17_CachePersistence ==
    /\ [][restarts' = restarts + 1 =>
            \A key \in DOMAIN embedding_cache :
                /\ key \in DOMAIN embedding_cache'
                /\ embedding_cache'[key] = embedding_cache[key]]_vars
    /\ []((emb_pc = "attempt" /\ Cleaned(emb_text) \in earlier_keys) =>
            ~NeedsCall(Cleaned(emb_text)))

\* "a" was embedded by a provider call, the process was restarted, and the
\* next call with "a" needed a provider call again
C17_Witness ==
    /\ restarts = 1
    /\ earlier_keys = {<<"a">>}
    /\ Len(emb_done) = 2
    /\ \A k \in 1..2 : emb_done[k].text = <<"a">> /\ emb_done[k].ok = 1
                       /\ emb_done[k].failed = 0

C25_EmptyInput ==
    /\ [][(emb_pc = "attempt" /\ Cleaned(emb_text) = <<>>) =>
            /\ emb_pc' = "returned"
            /\ embedding_cache' = embedding_cache
            /\ emb_done' = Append(emb_done,
                                  [text |-> emb_text,
                                   value |-> CacheGet(embedding_cache, <<>>),
                                   failed |-> 0, ok |-> 0])]_vars
    /\ [](<<>> \notin DOMAIN embedding_cache)
    /\ [](\A n \in 1..Len(emb_done) :
            Cleaned(emb_done[n].text) = <<>> =>
                emb_done[n].value = NoneValue /\ emb_done[n].ok = 0
                                              /\ emb_done[n].failed = 0)

\* a whitespace-only text after a text that was embedded: None, and the cache
\* still holds the one entry
C25_Witness ==
    /\ emb_pc = "returned"
    /\ Len(emb_done) = 2
    /\ emb_done[1].text = <<"a">> /\ emb_done[1].ok = 1
    /\ emb_done[2].text = <<>> /\ emb_done[2].value = NoneValue
    /\ emb_done[2].ok = 0 /\ emb_done[2].failed = 0
    /\ DOMAIN embedding_cache = {<<"a">>}

\* C26: within a process no step removes a key of embedding_cache or changes
\* the vector stored for it, and a failed provider call leaves the cache as
\* it was
C26_CacheMonotone ==
    /\ [][\A key \in DOMAIN embedding_cache :
             /\ key \in DOMAIN embedding_cache'
             /\ embedding_cache'[key] = embedding_cache[key]]_vars
    /\ [][(emb_pc = "attempt" /\ cur_attempt' = cur_attempt + 1) =>
            embedding_cache' = embedding_cache]_vars
    /\ [][(emb_pc = "attempt" /\ cur_attempt >= OPENAI_RETRY) =>
            embedding_cache' = embedding_cache]_vars

\* "a" was embedded, a call with "b" failed on every attempt, a second call
\* with "b" was answered: both entries are in the cache
C26_Witness ==
    /\ Len(emb_done) = 3
    /\ emb_done[1].text = <<"a">> /\ emb_done[1].ok = 1
    /\ emb_done[2].text = <<"b">> /\ emb_done[2].failed = OPENAI_RETRY
    /\ emb_done[3].text = <<"b">> /\ emb_done[3].ok = 1
    /\ DOMAIN embedding_cache = {<<"a">>, <<"b">>}
    /\ embedding_cache[<<"a">>] = Embedding(<<"a">>)

\* --------------------------- properties of get_embeddings under threads
\* C22: however the threads interleave, no input is sent to the provider
\* twice, and a text that was sent has its one entry in the cache once the
\* threads are back
C22_OneCallUnderConcurrency ==
    /\ \A j, k \in 1..Len(th_requests) : j # k => th_requests[j] # th_requests[k]
    /\ (\A w \in Threads : th_pc[w] = "idle") =>
           \A k \in 1..Len(th_requests) : th_requests[k] \in DOMAIN embedding_cache

\* both threads called with "a" once and are back: the provider was asked for
\* "a" twice, the cache holds one entry
C22_Witness ==
    /\ \A w \in Threads : th_pc[w] = "idle" /\ th_calls[w] = 1
                          /\ th_text[w] = <<"a">>
                          /\ th_ret[w] = Embedding(<<"a">>)
    /\ th_requests = <<<<"a">>, <<"a">>>>
    /\ DOMAIN embedding_cache = {<<"a">>}

\* ------------------------------- properties of two ingestion workers
\* C23: whatever the interleaving of two workers on one file_path, the path
\* has at most one documents row, and no two doc_chunk rows of one document
\* have the same chunk_index
C23_UniqueUnderWorkers ==
    /\ Cardinality(DocsWithPath(WorkerPath)) <= 1
    /\ \A j, k \in 1..Len(doc_chunk) :
         (j # k /\ doc_chunk[j].document_id = doc_chunk[k].document_id) =>
             doc_chunk[j].chunk_index # doc_chunk[k].chunk_index

\* both workers counted the record processed: one documents row, and every
\* chunk_index of the document twice
C23_Witness ==
    /\ \A w \in Workers : wk_pc[w] = "done" /\ wk_out[w] = "processed"
    /\ Len(documents) = 1
    /\ wk_doc[1] = wk_doc[2]
    /\ Len(doc_chunk) = 2 * ChunksOf(WorkerPath)
    /\ \A n \in 0..(ChunksOf(WorkerPath) - 1) :
         Cardinality({k \in 1..Len(doc_chunk) : doc_chunk[k].chunk_index = n}) = 2

\* -------------------------- properties of embed_and_store_chunks
\* ceil(k / n)
CeilDiv(k, n) == (k + n - 1) \div n

\* C21: in every doc_chunk row a tag embedding is there only with a non-empty
\* tag list, and embed_and_store_chunks makes one embed_query call per
\* non-empty tag list and none for an empty one
C21_TagEmbeddingsOnlyWithTags ==
    /\ [](\A k \in 1..Len(doc_chunk) :
            /\ doc_chunk[k].sectors_embed => doc_chunk[k].sectors
            /\ doc_chunk[k].companies_embed => doc_chunk[k].companies)
    /\ [][(pc = "tags" /\ pc' = "batch") =>
            /\ embed_calls' = embed_calls + (IF tags.sectors THEN 1 ELSE 0)
                                          + (IF tags.companies THEN 1 ELSE 0)
            /\ tags'.sectors_embed => tags.sectors
            /\ tags'.companies_embed => tags.companies]_vars

\* b.pdf, whose keyword lists are empty, was processed after a.pdf, whose
\* lists are not: the rows of b.pdf carry no tag embedding, those of a.pdf do
C21_Witness ==
    /\ pc = "done"
    /\ outcomes = <<"processed", "processed">>
    /\ Len(doc_chunk) = ChunksOf("a.pdf") + ChunksOf("b.pdf")
    /\ doc_chunk[1].sectors /\ doc_chunk[1].sectors_embed
    /\ doc_chunk[1].companies /\ doc_chunk[1].companies_embed
    /\ ~doc_chunk[Len(doc_chunk)].sectors /\ ~doc_chunk[Len(doc_chunk)].sectors_embed
    /\ ~doc_chunk[Len(doc_chunk)].companies_embed

\* C27: a document that gets past chunking has extract_keywords_llm called
\* exactly once, on the text that joins all its chunks, after process_pdf and
\* before any embedding call for it
C27_KeywordsOncePerDocument ==
    /\ [](pc \in {"file", "exists", "chunk", "keywords"} =>
            kw_calls = 0 /\ embed_calls = 0)
    /\ [](pc \in {"tags", "batch"} =>
            /\ kw_calls = 1
            /\ chunks = ChunksOf(record)
            /\ chunks > 0
            /\ full_text = chunks)
    /\ [][kw_calls' = kw_calls + 1 =>
            /\ pc = "keywords"
            /\ chunks = ChunksOf(record)
            /\ embed_calls = 0
            /\ batches = <<>>]_vars
    /\ [][EndsRecord("processed") => kw_calls = 1 /\ full_text = ChunksOf(record)]_vars

\* the 17 chunks of b.pdf are chunked and joined, the one call is made, no
\* embedding call yet
C27_Witness ==
    /\ pc = "tags"
    /\ record = "b.pdf"
    /\ chunks = DEFAULT_BATCH_SIZE + 1
    /\ full_text = DEFAULT_BATCH_SIZE + 1
    /\ kw_calls = 1
    /\ embed_calls = 0

\* C28: when embed_and_store_chunks is through with a document of K chunks, it
\* has made ceil(K / 16) embed_documents calls, each with at most 16 texts,
\* the batches following each other from the first chunk to the last, and one
\* embed_query call per non-empty tag list besides
C28_EmbeddingCallCounts ==
    /\ [][EndsRecord("processed") =>
            /\ Len(batches) = CeilDiv(chunks, DEFAULT_BATCH_SIZE)
            /\ \A b \in 1..Len(batches) :
                 /\ batches[b].texts >= 1
                 /\ batches[b].texts <= DEFAULT_BATCH_SIZE
                 /\ batches[b].first = (IF b = 1 THEN 1
                                        ELSE batches[b - 1].first + batches[b - 1].texts)
            /\ batches[Len(batches)].first + batches[Len(batches)].texts = chunks + 1
            /\ embed_calls = Len(batches) + (IF tags.sectors THEN 1 ELSE 0)
                                          + (IF tags.companies THEN 1 ELSE 0)]_vars
    /\ [](pc = "batch" => Len(batches) = CeilDiv(Min(i, chunks), DEFAULT_BATCH_SIZE))

\* the 17 chunks of b.pdf went out in a batch of 16 and a batch of 1
C28_Witness ==
    /\ pc = "batch"
    /\ record = "b.pdf"
    /\ i >= chunks
    /\ batches = <<[first |-> 1, texts |-> DEFAULT_BATCH_SIZE],
                   [first |-> DEFAULT_BATCH_SIZE + 1, texts |-> 1]>>
    /\ embed_calls = 2

\* C29 as stated: the row with ordinal n holds the n-th chunk, its
\* combined_text is the combined text as it was built, and its chunk_embed is
\* the vector returned for the combined_text the row holds
C29_StoredTextIsEmbeddedText ==
    \A k \in 1..Len(doc_chunk) :
        LET row == doc_chunk[k]
            path == documents[CHOOSE d \in 1..Len(documents) :
                                  documents[d].id = row.document_id].file_path
        IN /\ row.chunk_no = row.chunk_index + 1
           /\ row.combined_text = Combined(path, row.chunk_no)
           /\ row.chunk_embed = row.combined_text

\* C29: the row with ordinal n holds the n-th chunk, its combined_text is the
\* combined text of that chunk after sanitize_text, and its chunk_embed is the
\* vector returned for the combined text of that same chunk as it was sent,
\* in every batch
C29_WriteBackPreservesOrder ==
    \A k \in 1..Len(doc_chunk) :
        LET row == doc_chunk[k]
            path == documents[CHOOSE d \in 1..Len(documents) :
                                  documents[d].id = row.document_id].file_path
        IN /\ row.chunk_no = row.chunk_index + 1
           /\ row.chunk_no \in 1..ChunksOf(path)
           /\ row.combined_text = SanitizedCombined(Combined(path, row.chunk_no))
           /\ row.chunk_embed = Combined(path, row.chunk_no)

\* b.pdf is processed: its 17th chunk, the first of the second batch, is in the
\* row with chunk_index 16, with its own vector
C29_Witness ==
    /\ pc = "done"
    /\ \E k \in 1..Len(doc_chunk) :
         /\ doc_chunk[k].chunk_index = DEFAULT_BATCH_SIZE
         /\ doc_chunk[k].chunk_no = DEFAULT_BATCH_SIZE + 1
         /\ doc_chunk[k].chunk_embed = Combined("b.pdf", DEFAULT_BATCH_SIZE + 1)
         /\ doc_chunk[k].combined_text # doc_chunk[k].chunk_embed

\* ------------------------------ properties of the keyword lists
\* the entry is a str with something other than whitespace in it
NonBlankString(item) == item.t = "str" /\ \E j \in 1..Len(item.v) : ~IsSpace(item.v[j])

\* out holds, in the order of entries, the trimmed non-blank strings of
\* entries, up to the first KEYWORD_CAP of them, and nothing else
FilteredAndCapped(entries, out) ==
    LET valid == {j \in 1..Len(entries) : NonBlankString(entries[j])}
        nth(r) == CHOOSE j \in valid : Cardinality({h \in valid : h <= j}) = r
    IN /\ Len(out) = Min(Cardinality(valid), KEYWORD_CAP)
       /\ \A r \in 1..Len(out) :
            /\ out[r].t = "str"
            /\ out[r].v = Strip(entries[nth(r)].v)
            /\ out[r].v # <<>>

\* the value the JSON object of the response has under key, [] if it has none
ProvidedList(key) ==
    DictGet(json_loads(Strip(Unfence(Strip(kw_resp.content), 1))).v.v, key, EmptyList)

\* the response is a JSON object
ReturnedObject ==
    /\ kw_resp.kind = "str"
    /\ LET data == json_loads(Strip(Unfence(Strip(kw_resp.content), 1)))
       IN data.ok /\ data.v.t = "dict"

\* every entry of out is a string that is neither empty nor blank, and there
\* are at most KEYWORD_CAP of them
NonBlankStringsOnly(out) ==
    /\ Len(out) <= KEYWORD_CAP
    /\ \A r \in 1..Len(out) : NonBlankString(out[r])

\* the response is a JSON object whose two keys, where present, hold lists
ReturnedObjectWithLists ==
    /\ ReturnedObject
    /\ LET data == json_loads(Strip(Unfence(Strip(kw_resp.content), 1)))
       IN /\ DictGet(data.v.v, AFFECTED_SECTORS, EmptyList).t = "list"
          /\ DictGet(data.v.v, NAMED_COMPANIES, EmptyList).t = "list"

\* C30: when the response is a JSON object, each returned list holds only
\* non-blank strings and at most 40 of them; it is the provider's list with
\* the non-string and blank entries dropped, the rest trimmed and in their
\* order, cut after 40 entries
C30_FilteredCappedLists ==
    /\ (kw_pc = "returned" /\ ReturnedObject) =>
        /\ ~kw_result.raised
        /\ NonBlankStringsOnly(kw_result.value.affected_sectors)
        /\ NonBlankStringsOnly(kw_result.value.named_companies)
    /\ (kw_pc = "returned" /\ ReturnedObjectWithLists) =>
        /\ FilteredAndCapped(ProvidedList(AFFECTED_SECTORS).v,
                             kw_result.value.affected_sectors)
        /\ FilteredAndCapped(ProvidedList(NAMED_COMPANIES).v,
                             kw_result.value.named_companies)

\* a list of 43 entries with a number and a blank string among them came
\* back as the first 40 of its 41 names
C30_Witness ==
    /\ kw_pc = "returned"
    /\ ReturnedObjectWithLists
    /\ Len(ProvidedList(NAMED_COMPANIES).v) = KEYWORD_CAP + 3
    /\ Len(kw_result.value.named_companies) = KEYWORD_CAP
    /\ kw_result.value.named_companies[2].v = UK
    /\ kw_result.value.named_companies[3].v = HSBC
    /\ kw_result.value.affected_sectors = <<>>

\* ------------------------------ properties of the fallback
\* json.loads raised JSONDecodeError on the response
JsonParseFailed ==
    /\ kw_resp.kind = "str"
    /\ ~json_loads(Strip(Unfence(Strip(kw_resp.content), 1))).ok

\* C31 as stated: after a JSON-parse failure the sectors are the double-quoted
\* substrings of 3 to 100 characters of the response, as they stand and all of
\* them, and there are no companies
C31_FallbackReturnsQuoted ==
    (kw_pc = "returned" /\ JsonParseFailed) =>
        /\ kw_result.value.affected_sectors = FindQuoted(kw_resp.content, 1)
        /\ kw_result.value.named_companies = <<>>

\* C31: after a JSON-parse failure the sectors are the double-quoted substrings
\* of 3 to 100 characters of the response, trimmed, without the blank ones, in
\* order of occurrence and cut after 40, and there are no companies
C31_FallbackQuotedTrimmedCapped ==
    (kw_pc = "returned" /\ JsonParseFailed) =>
        /\ ~kw_result.raised
        /\ FilteredAndCapped(FindQuoted(kw_resp.content, 1),
                             kw_result.value.affected_sectors)
        /\ \A r \in 1..Len(kw_result.value.affected_sectors) :
              Len(kw_result.value.affected_sectors[r].v) <= QUOTED_MAX
        /\ kw_result.value.named_companies = <<>>

\* a text that is no JSON, with a quoted word of 2 letters, one of 5, a quoted
\* blank of 3 and a padded one: the word of 5 and the padded one, trimmed,
\* came back
C31_Witness ==
    /\ kw_pc = "returned"
    /\ JsonParseFailed
    /\ Len(FindQuoted(kw_resp.content, 1)) = 3
    /\ kw_result.value = Keywords(<<J("str", BANKS), J("str", Strip(LAW_FIRMS))>>, <<>>)

\* a failure of the try block that is no JSON-parse failure: llm.invoke raised,
\* the content is no str, the JSON value is no object, or a key of the object
\* holds a value a for loop cannot run over
OtherFailure ==
    \/ kw_resp.kind \in {"raises", "nonstr"}
    \/ /\ kw_resp.kind = "str"
       /\ LET data == json_loads(Strip(Unfence(Strip(kw_resp.content), 1)))
          IN /\ data.ok
             /\ \/ data.v.t # "dict"
                \/ ~Iterable(DictGet(data.v.v, AFFECTED_SECTORS, EmptyList))
                \/ ~Iterable(DictGet(data.v.v, NAMED_COMPANIES, EmptyList))

\* C32: after a failure that is no JSON-parse failure, extract_keywords_llm
\* returns an empty sector list and an empty company list
C32_OtherFailuresGiveEmptyLists ==
    (kw_pc = "returned" /\ OtherFailure) =>
        kw_result.value = Keywords(<<>>, <<>>)

\* the response was the JSON list ["banks"], which has no get: the fallback
\* returned banks as a sector
C32_Witness ==
    /\ kw_pc = "returned"
    /\ OtherFailure
    /\ kw_resp = [kind |-> "str", content |-> Arr(<<Quoted(BANKS)>>)]
    /\ kw_result.value = Keywords(<<J("str", BANKS)>>, <<>>)

\* ------------------------------ properties of the fused order
\* the fusion score of d, from the two rankings
FusionScore(d) == FracAdd(BranchTerm(vector_results, d), BranchTerm(keyword_results, d))

\* where d is first seen: its place in the vector branch, or behind the whole
\* vector branch its place in the keyword branch
FirstSeen(d) ==
    IF InRanking(vector_results, d) THEN PositionIn(vector_results, d)
    ELSE Len(vector_results) + PositionIn(keyword_results, d)

\* b goes before c: a higher score, or the same score and seen first
GoesBefore(b, c) ==
    \/ FracLess(FusionScore(c), FusionScore(b))
    \/ FracEq(FusionScore(b), FusionScore(c)) /\ FirstSeen(b) < FirstSeen(c)

GroupText(g) ==
    JoinWith(SubSeq(cs_sentences, SENTENCES_PER_CHUNK * (g - 1) + 1,
                    Min(SENTENCES_PER_CHUNK * g, Len(cs_sentences))), <<" ">>)

\* the groups of the whole list, in order
GroupTexts ==
    [g \in 1..CeilDiv(Len(cs_sentences), SENTENCES_PER_CHUNK) |-> GroupText(g)]

\* C33: create_sentence_chunks returns, in order, the groups of three
\* consecutive sentences whose joined text has 50 characters or more, and
\* drops exactly the groups that are shorter than 50
C33_ChunkingThreshold ==
    cs_pc = "returned" =>
        cs_chunks = SelectSeq(GroupTexts, LAMBDA t : Len(t) >= MIN_CHUNK_CHARS)

\* three sentences of 16 letters make a group of exactly 50 characters, which
\* was dropped, and the fourth sentence, of 51 letters, was kept
C33_Witness ==
    /\ cs_pc = "returned"
    /\ Len(cs_sentences) = SENTENCES_PER_CHUNK + 1
    /\ Len(GroupText(1)) = MIN_CHUNK_CHARS
    /\ cs_groups = <<[first |-> 1, kept |-> FALSE],
                     [first |-> SENTENCES_PER_CHUNK + 1, kept |-> TRUE]>>
    /\ cs_chunks = <<GroupText(2)>>

\* ------------------------------ properties of the outcome counters
StatKeys == {"processed", "skipped_duplicates", "skipped_missing", "errors"}

\* processed + skipped_duplicates + skipped_missing + errors
StatsTotal(st) == st.processed + st.skipped_duplicates + st.skipped_missing + st.errors

\* C36: during an ingest_json run the four counters add up to the number of
\* records handled so far, the step that ends a record's handling adds one to
\* exactly one of them, no other step of the run changes them, and after the
\* run they add up to the number of records
C36_CountersPartitionBatch ==
    /\ [](pc \in {"loop", "file", "exists", "chunk", "keywords", "tags", "batch", "done"} =>
            /\ StatsTotal(stats) = idx - 1
            /\ StatsTotal(stats) = Len(outcomes))
    /\ [](pc = "done" => StatsTotal(stats) = nrecords)
    /\ [][(pc \notin {"idle", "done", "crashed"} /\ pc' # "crashed") =>
            IF idx' = idx + 1
            THEN \E key \in StatKeys :
                    /\ stats'[key] = stats[key] + 1
                    /\ \A other \in StatKeys \ {key} : stats'[other] = stats[other]
            ELSE stats' = stats /\ idx' = idx]_vars

\* a run over two records is over: one was processed and one raised
C36_Witness ==
    /\ pc = "done"
    /\ nrecords = 2
    /\ stats.processed = 1
    /\ stats.errors = 1
    /\ stats.skipped_duplicates = 0
    /\ stats.skipped_missing = 0

\* ------------------------------ properties of the duplicate test
\* the chunk_index values of the rows stored for file_path p
StoredOrdinals(p) ==
    {ChunkRowsOfPath(p)[k].chunk_index : k \in 1..Len(ChunkRowsOfPath(p))}

\* C37: a record is counted in skipped_duplicates only if its file_path was
\* counted processed before, by this run or an earlier one, and the stored
\* document holds the chunk rows 0..K-1 of its text
C37_DuplicateMeansCompleted ==
    [][EndsRecord("dup") =>
         /\ written[record] # <<>>
         /\ StoredOrdinals(record) = 0..(ChunksOf(record) - 1)]_vars

\* the first run counted b.pdf an error after the rows of its first batch were
\* inserted; the second run counted the same record a duplicate
C37_Witness ==
    /\ runs = 2
    /\ outcomes = <<"dup">>
    /\ stats.skipped_duplicates = 1
    /\ written["b.pdf"] = <<>>
    /\ Len(documents) = 1
    /\ documents[1].file_path = "b.pdf"
    /\ Len(doc_chunk) = DEFAULT_BATCH_SIZE
    /\ ChunksOf("b.pdf") = DEFAULT_BATCH_SIZE + 1

\* ------------------------------ properties of documents without chunks
\* a file that is on disk and gives process_pdf no chunk
ChunklessFile(p) == FileOnDisk(p) /\ ChunksOf(p) = 0

\* C38: a document whose file gives no chunk has its documents row and no
\* chunk row; a later record with its file_path goes to chunking again under
\* the id of that row, is never counted a duplicate, and no second row is
\* inserted for it
C38_EmptyDocumentsStayRetryable ==
    /\ [](\A p \in Paths : ChunklessFile(p) =>
            /\ Cardinality(DocsWithPath(p)) <= 1
            /\ ChunkRowsOfPath(p) = <<>>)
    /\ [][(pc = "chunk" /\ ChunklessFile(record) /\ pc' # "crashed") =>
            /\ Cardinality(DocsWithPath(record)) = 1
            /\ documents' = documents
            /\ doc_chunk' = doc_chunk
            /\ ~EndsRecord("dup")]_vars
    /\ [][(pc = "exists" /\ ChunklessFile(record) /\ DocsWithPath(record) # {}
           /\ pc' # "crashed") =>
            /\ pc' = "chunk"
            /\ existing_doc_id' = documents[CHOOSE k \in DocsWithPath(record) : TRUE].id
            /\ document_id' = existing_doc_id'
            /\ documents' = documents
            /\ ~EndsRecord("dup")]_vars
    /\ [][EndsRecord("dup") => ~ChunklessFile(record)]_vars

\* the second run is at chunking for e.pdf under the id of the row the first
\* run inserted and left without chunks
C38_Witness ==
    /\ runs = 2
    /\ pc = "chunk"
    /\ record = "e.pdf"
    /\ Len(documents) = 1
    /\ documents[1].file_path = "e.pdf"
    /\ existing_doc_id = documents[1].id
    /\ document_id = documents[1].id
    /\ doc_chunk = <<>>

\* ------------------------------ properties of init_db
\* the rows with this file_path
RowsWithPath(rows, p) == {r \in rows : r.file_path = p}

\* the row had a duplicate when init_db started
HadDuplicate(r) ==
    r.file_path # "NULL" /\ Cardinality(RowsWithPath(rp_before.documents, r.file_path)) > 1

\* C35: when init_db has finished, every non-null file_path is in at most one
\* documents row; of the rows that shared a path the one with the smallest id
\* is left; the doc_chunk rows of the deleted documents are gone; the rows
\* that had no duplicate, rows without file_path among them, and all other
\* doc_chunk rows are as they were
C35_DuplicateRepair ==
    rp_pc = "done" =>
        /\ \A p \in RepairPaths \ {"NULL"} : Cardinality(RowsWithPath(rp_documents, p)) <= 1
        /\ rp_documents \subseteq rp_before.documents
        /\ \A r \in rp_before.documents :
             IF HadDuplicate(r)
             THEN r \in rp_documents <=>
                    \A o \in RowsWithPath(rp_before.documents, r.file_path) : r.id <= o.id
             ELSE r \in rp_documents
        /\ rp_chunks = {c \in rp_before.chunks :
                          \E r \in rp_documents : r.id = c.document_id}
        /\ \A c \in rp_before.chunks :
             (\E r \in rp_documents : r.id = c.document_id) => c \in rp_chunks

\* three rows, each with a chunk row: 1 and 3 shared a.pdf, 2 has no path.
\* Row 3 and its chunk row are gone, the rest is there
C35_Witness ==
    /\ rp_pc = "done"
    /\ rp_before.documents = {[id |-> 1, file_path |-> "a.pdf"],
                              [id |-> 2, file_path |-> "NULL"],
                              [id |-> 3, file_path |-> "a.pdf"]}
    /\ rp_before.chunks = {[document_id |-> 1], [document_id |-> 2], [document_id |-> 3]}
    /\ rp_documents = {[id |-> 1, file_path |-> "a.pdf"], [id |-> 2, file_path |-> "NULL"]}
    /\ rp_chunks = {[document_id |-> 1], [document_id |-> 2]}
    /\ rp_index

\* ------------------------------ properties of save_document_and_nodes
\* the documents rows committed since the call started
NewDocuments == sv_db.documents \ sv_before.documents

\* the doc_chunk rows committed since the call started
NewNodes == sv_db.nodes \ sv_before.nodes

\* C39: nothing of a save_document_and_nodes call is in the tables before the
\* block is left; when the call returns without exception the document row and
\* all its node rows are committed; when an exception goes to the caller the
\* tables are as before the call; the session is closed either way
C39_SaveIsAllOrNothing ==
    /\ (sv_pc \in {"document", "nodes", "exit"}) => sv_db = sv_before
    /\ (sv_pc = "returned") =>
        /\ ~sv_session.open
        /\ IF sv_exc = ""
           THEN /\ Cardinality(NewDocuments) = 1
                /\ \A r \in NewDocuments :
                     /\ r.file_path = sv_path
                     /\ NewNodes = {[document_id |-> r.id, no |-> k] : k \in 1..sv_nodes}
                /\ sv_before.documents \subseteq sv_db.documents
                /\ sv_before.nodes \subseteq sv_db.nodes
           ELSE sv_db = sv_before

\* the second of two nodes raised after the document was flushed and the first
\* node added: the call ended with the exception and nothing is in the tables
C39_Witness ==
    /\ sv_pc = "returned"
    /\ sv_exc = "TypeError"
    /\ sv_nodes = 2
    /\ sv_seq = 1
    /\ sv_db = [documents |-> {}, nodes |-> {}]
    /\ ~sv_session.open

\* ------------------------------ properties of load_documents_in_database
\* C40: a record whose fileurl is stored, from before the run or from an
\* earlier record of the run, is skipped; no two documents rows share a
\* fileurl; and no run ends with the unique index on file_path rejecting an
\* INSERT
C40_EachFileStoredOnce ==
    /\ [](\A r, o \in ld_rows : r.file_url = o.file_url => r = o)
    /\ [](ld_exc # "IntegrityError")
    /\ [][(ld_pc = "loop" /\ ld_idx <= Len(ld_records) /\ ld_idx' # 1
           /\ ld_records[ld_idx].fileurl \in StoredUrls(ld_rows)) =>
            /\ ld_rows' = ld_rows
            /\ ld_idx' = ld_idx + 1]_vars

\* the file holds the same record twice: the first was stored, the INSERT of
\* the second was rejected by the index, and the run ended with the exception
C40_Witness ==
    /\ ld_pc = "raised"
    /\ ld_exc = "IntegrityError"
    /\ ld_runs = 1
    /\ Len(ld_records) = 2
    /\ ld_records[1] = ld_records[2]
    /\ ld_idx = 2
    /\ ld_existing = {}
    /\ StoredUrls(ld_rows) = {ld_records[2].fileurl}

====
